---- MODULE Spec2Model ----
(***************************************************************************)
(* Pipeline Supervisor (pipelineRunner.ts) and Index Manager                *)
(* (indexLoader.ts) of the call-graph extension, as a state machine.        *)
(*                                                                          *)
(* One step of the model is one task of the single-threaded event loop: a   *)
(* command handler up to its next await, a timer callback, a child-process  *)
(* event handler, a file-watcher callback, or a move of the environment     *)
(* (the clock, the child processes, the dataset file).                      *)
(***************************************************************************)
EXTENDS Integers, FiniteSets, Sequences, TLC

\* ------------------------------------------------------------- bounds
MaxProcs == 2        \* child processes spawned in one behaviour
MaxTimers == 2       \* timer handles the host can have armed at once
DebounceTicks == 2   \* callGraph.debounceDelayMs, in clock ticks
MaxRegen == 1        \* Regenerate Index commands suspended at an await
MaxVersion == 1      \* distinct well-formed contents of the dataset file
MaxNodes == 2        \* nodes of a graph given to buildIndex
MaxLine == 2         \* highest line number of a node's range
MaxChecks == 2       \* checkPrerequisites calls that can be in flight together
MaxLinks == 2        \* links of a graph given to buildIndex

Pids == 1..MaxProcs
TimerIds == 1..MaxTimers
Versions == 1..MaxVersion

NoProcess == 0       \* currentProcess = null
NoTimer == 0         \* debounceTimer = null
NoIndex == 0         \* cachedIndex = null
Unarmed == -1        \* a timer handle that is not scheduled

\* exit codes seen by the close handler: 0, or anything else (a nonzero code,
\* or null when the child was ended by a signal)
ExitCodes == {0, 1}

\* PipelineStatus
PipelineStatus == {"idle", "running", "success", "error"}

\* getIndexPath(): the default location, or the one callGraph.indexPath names
Paths == {"default", "custom"}
NoPath == "none"     \* no index cached, no watcher armed, no run spawned

\* contents of a dataset file on disk
Absent == [kind |-> "absent", ver |-> NoIndex]
Malformed == [kind |-> "malformed", ver |-> NoIndex]
Graph(v) == [kind |-> "graph", ver |-> v]
FileContents == {Absent, Malformed} \cup {Graph(v) : v \in Versions}
\* text that parses, with a nodes array, whose links member is not an array
BadLinks(v) == [kind |-> "badLinks", ver |-> MaxVersion + v]
AnyContents == FileContents \cup {BadLinks(v) : v \in Versions}

\* ------------------------------------------------------------- graphs
\* an optional numeric property (start_line?, end_line?) that is absent
Undefined == -1
\* strings that are paths are sequences of their pieces, "" being <<>>
EmptyString == <<>>
NodeIds == {"a", "b"}
DisplayNames == {"f", "g"}
Lines == 1..MaxLine

\* the properties of a D3Node that buildIndex and the queries read
D3Node(id, display_name, relative_path, file_name, start_line, end_line) ==
    [id |-> id, display_name |-> display_name, relative_path |-> relative_path,
     file_name |-> file_name, start_line |-> start_line, end_line |-> end_line,
     dependencies |-> <<>>, dependents |-> <<>>]

\* nodes without a file and without a line range: any id and name
NamedNodes ==
    {D3Node(i, d, EmptyString, EmptyString, Undefined, Undefined) :
        i \in NodeIds, d \in DisplayNames}
\* nodes of a file named by file_name alone: without lines, with end_line 0,
\* with a one-line range
FileNameNodes ==
    {D3Node("b", "g", EmptyString, <<"p.rs">>, r[1], r[2]) :
        r \in {<<Undefined, Undefined>>, <<1, 0>>, <<1, 1>>}}
\* nodes of a file named by relative_path, with a start line; end_line may be
\* absent or any line (also one before the start)
PlacedNodes ==
    {D3Node(i, "f", <<"src", "/", "p.rs">>, <<"p.rs">>, s, e) :
        i \in NodeIds, s \in Lines, e \in {Undefined} \cup Lines}
Nodes == NamedNodes \cup FileNameNodes \cup PlacedNodes

RECURSIVE SeqsUpTo(_, _)
\* the sequences over S of length at most n
SeqsUpTo(S, n) ==
    IF n = 0 THEN {<<>>}
    ELSE SeqsUpTo(S, n - 1) \cup {Append(q, x) : q \in {r \in SeqsUpTo(S, n - 1) : Len(r) = n - 1}, x \in S}

\* graph.metadata is optional
NoMetadata == [total_nodes |-> Undefined, total_edges |-> Undefined]
\* D3Graph values: the parsed content of a dataset file
Graphs ==
    {[nodes |-> ns, links |-> <<>>, metadata |-> NoMetadata] : ns \in SeqsUpTo(Nodes, MaxNodes)}
EmptyGraph == [nodes |-> <<>>, links |-> <<>>, metadata |-> NoMetadata]

\* ------------------------------------------------------------- graphs that are queried
\* an id and a display name no node has
UnknownId == "z"
UnknownName == "h"
\* the source files of the workspace, relative to its root: one at the top,
\* and two in different crates that share the base name p.rs
SourceFiles ==
    {<<"src", "/", "p.rs">>,
     <<"a", "/", "src", "/", "p.rs">>,
     <<"b", "/", "src", "/", "p.rs">>}
\* one-line functions: of the top file with any id, of crate a with id "a",
\* of crate b with id "b"
FileNodes ==
    {D3Node(i, "f", <<"src", "/", "p.rs">>, <<"p.rs">>, l, l) : i \in NodeIds, l \in Lines}
    \cup {D3Node("a", "f", <<"a", "/", "src", "/", "p.rs">>, <<"p.rs">>, l, l) : l \in Lines}
    \cup {D3Node("b", "g", <<"b", "/", "src", "/", "p.rs">>, <<"p.rs">>, l, l) : l \in Lines}
\* nodes whose dependencies name an id that is never a node, and whose
\* dependents name "b", which need not be one
CallerNodes ==
    {[D3Node(i, "g", EmptyString, EmptyString, Undefined, Undefined)
         EXCEPT !.dependencies = <<UnknownId>>, !.dependents = <<"b">>] : i \in NodeIds}
QueriedNodes == FileNodes \cup CallerNodes
\* D3Link
D3Link(source, target) == [source |-> source, target |-> target]
Links == {D3Link("a", "b"), D3Link("b", UnknownId)}
\* metadata whose counts are not those of the arrays
WrongMetadata == [total_nodes |-> 7, total_edges |-> 0]
\* graphs of any nodes without links, and graphs of callers with any links
\* and any metadata
QueriedGraphs ==
    {[nodes |-> ns, links |-> <<>>, metadata |-> NoMetadata] :
        ns \in SeqsUpTo(QueriedNodes, MaxNodes)}
    \cup {[nodes |-> ns, links |-> ls, metadata |-> md] :
            ns \in SeqsUpTo(CallerNodes, 1), ls \in SeqsUpTo(Links, MaxLinks),
            md \in {NoMetadata, WrongMetadata}}
\* the absolute path of a workspace file, as the editor gives it
AbsolutePath(rel) == <<"/", "ws", "/">> \o rel
\* no lookup call made
NoQuery == [kind |-> "none", arg |-> "", line |-> 0]

\* ------------------------------------------------------------- pipeline options
\* an optional property: <<>> when absent (undefined), <<v>> when it has value v
None == <<>>
Some(v) == <<v>>
\* PipelineOptions values; a call without options reads every property as undefined
PipelineOptions ==
    [skipVerification : {None, Some(TRUE), Some(FALSE)},
     skipSimilarLemmas : {None, Some(TRUE), Some(FALSE)},
     useCachedScip : {None, Some(TRUE), Some(FALSE)},
     package : {None, Some(""), Some("pkg")},
     githubUrl : {None, Some(""), Some("url")}]
NoOptions ==
    [skipVerification |-> None, skipSimilarLemmas |-> None, useCachedScip |-> None,
     package |-> None, githubUrl |-> None]
\* the callGraph settings runPipeline reads: the two flags, and what is found
\* at defaultScipCallgraphPath ("binary": the directory with target/release/pipeline,
\* "source": the directory without it, "unset": empty or not an existing path)
Settings ==
    [skipVerification : BOOLEAN, skipSimilarLemmas : BOOLEAN,
     scipCallgraph : {"binary", "source", "unset"}]
DefaultSettings ==
    [skipVerification |-> FALSE, skipSimilarLemmas |-> TRUE, scipCallgraph |-> "unset"]
\* ------------------------------------------------------------- prerequisites
\* the tools checkPrerequisites probes, in the order it probes them
Tools == <<"verus-analyzer", "scip", "cargo verus">>
\* the tools whose failing probe is reported; cargo verus is optional
RequiredTools == {"verus-analyzer", "scip"}
CheckIds == 1..MaxChecks
\* the promise of a checkPrerequisites call: not made, pending, or settled
NoResult == [state |-> "none", ok |-> FALSE, missing |-> <<>>]
Pending == [state |-> "pending", ok |-> FALSE, missing |-> <<>>]

\* workspaceFolder.uri.fsPath
WorkspaceRoot == "root"
\* no cp.spawn call made yet
NoInvocation == [command |-> "", args |-> <<>>]

VARIABLES
    currentStatus,   \* pipelineRunner: let currentStatus
    currentProcess,  \* pipelineRunner: let currentProcess (a pid or NoProcess)
    debounceTimer,   \* pipelineRunner: let debounceTimer (a timer id or NoTimer)
    cachedIndex,     \* indexLoader: let cachedIndex (a version or NoIndex)
    cachedPath,      \* indexLoader: cachedIndex.metadata.indexPath (NoPath when no index is cached)
    indexWatcher,    \* indexLoader: let indexWatcher (TRUE when a watcher is armed)
    watchedPath,     \* indexLoader: the path the armed watcher is scoped to
    liveWatchers,    \* host: index watchers created by setupFileWatcher and not disposed
    cfgPath,         \* configuration: the path getIndexPath(workspaceRoot) resolves to
    autoRegenerateOnSave, \* configuration: callGraph.autoRegenerateOnSave as read by initializePipelineRunner
    workspaceFolder, \* host: vscode.workspace.workspaceFolders?.[0] is defined
    outPath,         \* pid -> the indexPath its run passed to the pipeline as -o
    procState,       \* OS: pid -> "none" | "failing" | "alive" | "killed" | "errored" | "exit0" | "exitN"
    runState,        \* promise of the run of pid: "none" | "pending" | "awaitReload" | "resolved" | "rejected"
    timers,          \* host timers: timer id -> ticks left, or Unarmed
    regenPrereq,     \* regenerateIndex invocations suspended in await checkPrerequisites()
    regenDialog,     \* regenerateIndex invocations suspended in the "already running" dialog
    files,           \* path -> content of the file there
    graph,           \* indexLoader: the D3Graph handed to buildIndex
    index,           \* indexLoader: the CallGraphIndex the last buildIndex call returned
    options,         \* pipelineRunner: the options argument of runPipeline
    settings,        \* configuration: what runPipeline reads from the callGraph section
    invocation,      \* pipelineRunner: command and args of the last cp.spawn call
    toolOk,          \* environment: whether running the tool's version command succeeds
    checkPc,         \* checkPrerequisites: per call, the probe it awaits (0: none)
    missing,         \* checkPrerequisites: per call, the local array missing
    prereqs,         \* checkPrerequisites: per call, the promise it returned
    probes,          \* history: per call, the probes made and whether each failed
    logged,          \* history: per call, whether the console.log line was written
    query,           \* indexLoader: the arguments of the last lookup call
    found,           \* indexLoader: what the last lookup call returned (None: null, Some(v): the node or the list v)
    watchEvents,     \* change/delete notifications queued for the armed index watcher
    sinceTrigger,    \* history: clock ticks since the last triggerDebounced call (capped)
    owed,            \* history: bursts of triggers begun minus timer callbacks run
    dropped,         \* history: the last timer callback found a run in progress
    reloaded,        \* history: pids whose close handler called loadIndex(root, true)
    errorShown       \* history: pids for which showErrorMessage was raised

pipelineVars == <<currentStatus, currentProcess, procState, runState, outPath>>
timerVars == <<debounceTimer, timers, sinceTrigger, owed, dropped>>
regenVars == <<regenPrereq, regenDialog>>
indexVars == <<cachedIndex, cachedPath, indexWatcher, watchedPath, liveWatchers, watchEvents>>
cmdVars == <<options, settings, invocation>>
prereqVars == <<toolOk, checkPc, missing, prereqs, probes, logged>>
lookupVars == <<query, found>>
libVars == <<graph, index, cmdVars, prereqVars, lookupVars>>
envVars == <<files, cfgPath, autoRegenerateOnSave, workspaceFolder, libVars>>
histVars == <<reloaded, errorShown>>
vars == <<currentStatus, currentProcess, debounceTimer, cachedIndex, cachedPath,
          indexWatcher, watchedPath, liveWatchers, cfgPath, autoRegenerateOnSave,
          workspaceFolder, outPath,
          procState, runState, timers,
          regenPrereq, regenDialog, files, graph, index, options, settings, invocation,
          toolOk, checkPc, missing, prereqs, probes, logged, query, found,
          watchEvents,
          sinceTrigger, owed, dropped, reloaded, errorShown>>

\* getIndexPath(workspaceRoot)
getIndexPath == cfgPath
\* the dataset file at the resolved path
file == files[getIndexPath]

\* ------------------------------------------------------------- helpers
Spawned == {p \in Pids : procState[p] # "none"}
\* processes that exist at the OS level (spawned, not yet exited)
Alive == {p \in Pids : procState[p] \in {"alive", "killed"}}
Armed == {t \in TimerIds : timers[t] # Unarmed}
NextPid == Cardinality(Spawned) + 1

\* a continuation queued with process.nextTick or as a microtask runs before
\* the event loop takes its next task: the 'error' event of a failed spawn,
\* and the close handler's resumption after await loadIndex(...)
Urgent == \E p \in Pids : procState[p] = "failing" \/ runState[p] = "awaitReload"

\* ------------------------------------------------------------- index builder
\* a JavaScript Map: its keys in insertion order, and the value at each key
MapNew == [keys |-> <<>>, at |-> <<>>]
MapHas(m, k) == k \in DOMAIN m.at
MapSize(m) == Len(m.keys)
\* Map.prototype.set: a new key is added last, an existing key keeps its place
MapSet(m, k, v) ==
    [keys |-> IF MapHas(m, k) THEN m.keys ELSE Append(m.keys, k),
     at |-> [x \in DOMAIN m.at \cup {k} |-> IF x = k THEN v ELSE m.at[x]]]
\* map.get(k) || dflt
MapGetOr(m, k, dflt) == IF MapHas(m, k) THEN m.at[k] ELSE dflt

\* a file key that is always the file name
filePathOfFileName(node) == node.file_name

\* node.relative_path || node.file_name
filePathOf(node) ==
    IF node.relative_path # EmptyString THEN node.relative_path ELSE node.file_name

\* node.end_line ?? node.start_line: an end_line of 0 is taken as it is
endLineOfNullish(node) ==
    IF node.end_line # Undefined THEN node.end_line ELSE node.start_line

\* node.end_line || node.start_line
endLineOf(node) ==
    IF node.end_line # Undefined /\ node.end_line # 0 THEN node.end_line ELSE node.start_line

RECURSIVE setLinesKeepsFirst(_, _, _, _)
\* a line loop that leaves a line alone when an earlier node already has it
setLinesKeepsFirst(lineMap, node, line, endLine) ==
    IF line <= endLine
    THEN setLinesKeepsFirst(IF MapHas(lineMap, line) THEN lineMap ELSE MapSet(lineMap, line, node),
                            node, line + 1, endLine)
    ELSE lineMap

RECURSIVE setLines(_, _, _, _)
\* for (let line = from; line <= endLine; line++) lineMap.set(line, node)
setLines(lineMap, node, line, endLine) ==
    IF line <= endLine
    THEN setLines(MapSet(lineMap, line, node), node, line + 1, endLine)
    ELSE lineMap

\* a loop body that keys the primary map by display name
indexNodeByName(maps, node) ==
    LET filePath == filePathOf(node)
        byId == MapSet(maps.nodesById, node.display_name, node)
        byName == MapSet(maps.nodesByDisplayName, node.display_name,
                         Append(MapGetOr(maps.nodesByDisplayName, node.display_name, <<>>), node))
        byFile == IF filePath # EmptyString
                  THEN MapSet(maps.nodesByFile, filePath,
                              Append(MapGetOr(maps.nodesByFile, filePath, <<>>), node))
                  ELSE maps.nodesByFile
        byLine == IF filePath # EmptyString /\ node.start_line # Undefined
                  THEN MapSet(maps.nodesByLine, filePath,
                              setLines(MapGetOr(maps.nodesByLine, filePath, MapNew),
                                       node, node.start_line, endLineOf(node)))
                  ELSE maps.nodesByLine
    IN [nodesById |-> byId, nodesByDisplayName |-> byName,
        nodesByFile |-> byFile, nodesByLine |-> byLine]

\* a loop body that replaces the list of a display name by the node alone
indexNodeOverwritesName(maps, node) ==
    LET filePath == filePathOf(node)
        byId == MapSet(maps.nodesById, node.id, node)
        byName == MapSet(maps.nodesByDisplayName, node.display_name, <<node>>)
        byFile == IF filePath # EmptyString
                  THEN MapSet(maps.nodesByFile, filePath,
                              Append(MapGetOr(maps.nodesByFile, filePath, <<>>), node))
                  ELSE maps.nodesByFile
        byLine == IF filePath # EmptyString /\ node.start_line # Undefined
                  THEN MapSet(maps.nodesByLine, filePath,
                              setLines(MapGetOr(maps.nodesByLine, filePath, MapNew),
                                       node, node.start_line, endLineOf(node)))
                  ELSE maps.nodesByLine
    IN [nodesById |-> byId, nodesByDisplayName |-> byName,
        nodesByFile |-> byFile, nodesByLine |-> byLine]

\* the body of buildIndex's loop for one node, on the four maps built so far
indexNode(maps, node) ==
    LET filePath == filePathOf(node)
        byId == MapSet(maps.nodesById, node.id, node)
        byName == MapSet(maps.nodesByDisplayName, node.display_name,
                         Append(MapGetOr(maps.nodesByDisplayName, node.display_name, <<>>), node))
        byFile == IF filePath # EmptyString
                  THEN MapSet(maps.nodesByFile, filePath,
                              Append(MapGetOr(maps.nodesByFile, filePath, <<>>), node))
                  ELSE maps.nodesByFile
        byLine == IF filePath # EmptyString /\ node.start_line # Undefined
                  THEN MapSet(maps.nodesByLine, filePath,
                              setLines(MapGetOr(maps.nodesByLine, filePath, MapNew),
                                       node, node.start_line, endLineOf(node)))
                  ELSE maps.nodesByLine
    IN [nodesById |-> byId, nodesByDisplayName |-> byName,
        nodesByFile |-> byFile, nodesByLine |-> byLine]

RECURSIVE indexNodes(_, _, _)
\* for (const node of graph.nodes) ..., from the i-th node on
indexNodes(maps, nodes, i) ==
    IF i > Len(nodes) THEN maps
    ELSE indexNodes(indexNode(maps, nodes[i]), nodes, i + 1)

\* a builder that takes the counts the file states when it states them
buildIndexTrustsMetadata(g, indexPath) ==
    LET maps == indexNodes([nodesById |-> MapNew, nodesByDisplayName |-> MapNew,
                            nodesByFile |-> MapNew, nodesByLine |-> MapNew], g.nodes, 1)
    IN [nodesById |-> maps.nodesById,
        nodesByDisplayName |-> maps.nodesByDisplayName,
        nodesByFile |-> maps.nodesByFile,
        nodesByLine |-> maps.nodesByLine,
        links |-> g.links,
        metadata |-> [totalNodes |-> IF g.metadata = NoMetadata THEN Len(g.nodes)
                                     ELSE g.metadata.total_nodes,
                      totalEdges |-> IF g.metadata = NoMetadata THEN Len(g.links)
                                     ELSE g.metadata.total_edges,
                      indexPath |-> indexPath]]

\* buildIndex(graph, indexPath); of the metadata, the counts and the path
\* (projectRoot and the two dates do not depend on the nodes)
buildIndex(g, indexPath) ==
    LET maps == indexNodes([nodesById |-> MapNew, nodesByDisplayName |-> MapNew,
                            nodesByFile |-> MapNew, nodesByLine |-> MapNew], g.nodes, 1)
    IN [nodesById |-> maps.nodesById,
        nodesByDisplayName |-> maps.nodesByDisplayName,
        nodesByFile |-> maps.nodesByFile,
        nodesByLine |-> maps.nodesByLine,
        links |-> g.links,
        metadata |-> [totalNodes |-> Len(g.nodes), totalEdges |-> Len(g.links),
                      indexPath |-> indexPath]]

\* the supervisor and the index manager at rest, as activation leaves them,
\* with no dataset file anywhere
AtRest ==
    /\ currentStatus = "idle"
    /\ currentProcess = NoProcess
    /\ debounceTimer = NoTimer
    /\ cachedIndex = NoIndex
    /\ cachedPath = NoPath
    /\ indexWatcher = FALSE
    /\ watchedPath = NoPath
    /\ liveWatchers = 0
    /\ autoRegenerateOnSave = FALSE
    /\ workspaceFolder = TRUE
    /\ outPath = [p \in Pids |-> NoPath]
    /\ procState = [p \in Pids |-> "none"]
    /\ runState = [p \in Pids |-> "none"]
    /\ timers = [t \in TimerIds |-> Unarmed]
    /\ regenPrereq = 0
    /\ regenDialog = 0
    /\ files = [pth \in Paths |-> Absent]
    /\ watchEvents = {}
    /\ sinceTrigger = DebounceTicks
    /\ owed = 0
    /\ dropped = FALSE
    /\ reloaded = {}
    /\ errorShown = {}

\* no lookup made
NoLookup == query = NoQuery /\ found = None

\* no checkPrerequisites call made; every tool installed
NoChecks ==
    /\ toolOk = [t \in {Tools[i] : i \in 1..Len(Tools)} |-> TRUE]
    /\ checkPc = [c \in CheckIds |-> 0]
    /\ missing = [c \in CheckIds |-> <<>>]
    /\ prereqs = [c \in CheckIds |-> NoResult]
    /\ probes = [c \in CheckIds |-> <<>>]
    /\ logged = [c \in CheckIds |-> FALSE]

Init ==
    /\ currentStatus = "idle"
    /\ currentProcess = NoProcess
    /\ debounceTimer = NoTimer
    /\ cachedIndex = NoIndex
    /\ cachedPath = NoPath
    /\ indexWatcher = FALSE
    /\ watchedPath = NoPath
    /\ liveWatchers = 0
    /\ cfgPath = "default"
    /\ autoRegenerateOnSave \in BOOLEAN
    /\ workspaceFolder = TRUE
    /\ outPath = [p \in Pids |-> NoPath]
    /\ procState = [p \in Pids |-> "none"]
    /\ runState = [p \in Pids |-> "none"]
    /\ timers = [t \in TimerIds |-> Unarmed]
    /\ regenPrereq = 0
    /\ regenDialog = 0
    /\ \E c \in FileContents : files = [pth \in Paths |-> IF pth = "default" THEN c ELSE Absent]
    /\ graph = EmptyGraph
    /\ index = buildIndex(EmptyGraph, NoPath)
    /\ options = NoOptions
    /\ settings = DefaultSettings
    /\ invocation = NoInvocation
    /\ NoChecks
    /\ NoLookup
    /\ watchEvents = {}
    /\ sinceTrigger = DebounceTicks
    /\ owed = 0
    /\ dropped = FALSE
    /\ reloaded = {}
    /\ errorShown = {}

\* ------------------------------------------------------------- index manager
\* the Index Manager's singletons as one value
IndexState ==
    [cache |-> cachedIndex, path |-> cachedPath,
     watcher |-> indexWatcher, wpath |-> watchedPath, live |-> liveWatchers,
     events |-> watchEvents]

\* const index = buildIndex(graph, indexPath); cachedIndex = index: the cache
\* holds the index built from that content of the file, named by the content's
\* version (the maps inside an index are the subject of buildIndex below)
builtFrom(content) == content.ver

\* a clearCache that drops the cache and leaves the watcher armed
clearCacheKeepsWatcher(st) ==
    [st EXCEPT !.cache = NoIndex, !.path = NoPath]

\* clearCache(): drops the cache and disposes the watcher
clearCache(st) ==
    [cache |-> NoIndex, path |-> NoPath, watcher |-> FALSE, wpath |-> NoPath,
     live |-> IF st.watcher THEN st.live - 1 ELSE st.live, events |-> {}]

\* a setupFileWatcher that creates the new watcher and never disposes the old one
setupIndexWatcherNoDispose(st, indexPath) ==
    [st EXCEPT !.watcher = TRUE, !.wpath = indexPath, !.live = @ + 1]

\* a setupFileWatcher that leaves an armed watcher as it is, on its old path
setupIndexWatcherKeepsScope(st, indexPath) ==
    IF st.watcher THEN st
    ELSE [st EXCEPT !.watcher = TRUE, !.wpath = indexPath, !.live = @ + 1]

\* setupFileWatcher(workspaceRoot, indexPath): disposes the armed watcher (its
\* queued notifications are dropped with it) and arms a new one on indexPath
setupIndexWatcher(st, indexPath) ==
    [st EXCEPT !.watcher = TRUE, !.wpath = indexPath, !.events = {},
               !.live = (IF st.watcher THEN @ - 1 ELSE @) + 1]

\* a loadIndex that records the path in the cache before the file is read
loadIndexPublishesEarly(st, forceReload) ==
    IF st.cache # NoIndex /\ ~forceReload /\ st.path = getIndexPath
    THEN [st |-> st, ok |-> TRUE, err |-> "none", ret |-> st.cache]
    ELSE IF file.kind = "absent"
    THEN [st |-> [st EXCEPT !.path = getIndexPath], ok |-> FALSE, err |-> "notFound", ret |-> NoIndex]
    ELSE IF file.kind = "malformed"
    THEN [st |-> [st EXCEPT !.path = getIndexPath], ok |-> FALSE, err |-> "parse", ret |-> NoIndex]
    ELSE [st |-> setupIndexWatcher([st EXCEPT !.cache = builtFrom(file),
                                              !.path = getIndexPath], getIndexPath),
          ok |-> TRUE, err |-> "none", ret |-> builtFrom(file)]

\* a loadIndex that drops the cached index when the file cannot be parsed
loadIndexDropsOnFailure(st, forceReload) ==
    IF st.cache # NoIndex /\ ~forceReload /\ st.path = getIndexPath
    THEN [st |-> st, ok |-> TRUE, err |-> "none", ret |-> st.cache]
    ELSE IF file.kind = "absent"
    THEN [st |-> st, ok |-> FALSE, err |-> "notFound", ret |-> NoIndex]
    ELSE IF file.kind = "malformed"
    THEN [st |-> [st EXCEPT !.cache = NoIndex, !.path = NoPath],
          ok |-> FALSE, err |-> "parse", ret |-> NoIndex]
    ELSE [st |-> setupIndexWatcher([st EXCEPT !.cache = builtFrom(file),
                                              !.path = getIndexPath], getIndexPath),
          ok |-> TRUE, err |-> "none", ret |-> builtFrom(file)]

\* a loadIndex that disposes the watcher when the file does not exist
loadIndexDisarmsOnMissing(st, forceReload) ==
    IF st.cache # NoIndex /\ ~forceReload /\ st.path = getIndexPath
    THEN [st |-> st, ok |-> TRUE, err |-> "none", ret |-> st.cache]
    ELSE IF file.kind = "absent"
    THEN [st |-> [st EXCEPT !.watcher = FALSE, !.wpath = NoPath, !.events = {}],
          ok |-> FALSE, err |-> "notFound", ret |-> NoIndex]
    ELSE IF file.kind = "malformed"
    THEN [st |-> st, ok |-> FALSE, err |-> "parse", ret |-> NoIndex]
    ELSE [st |-> setupIndexWatcher([st EXCEPT !.cache = builtFrom(file),
                                              !.path = getIndexPath], getIndexPath),
          ok |-> TRUE, err |-> "none", ret |-> builtFrom(file)]

\* a loadIndex that returns whatever is cached, whichever path it was read from
loadIndexIgnoresPath(st, forceReload) ==
    IF st.cache # NoIndex /\ ~forceReload
    THEN [st |-> st, ok |-> TRUE, err |-> "none", ret |-> st.cache]
    ELSE IF file.kind = "absent"
    THEN [st |-> st, ok |-> FALSE, err |-> "notFound", ret |-> NoIndex]
    ELSE IF file.kind = "malformed"
    THEN [st |-> st, ok |-> FALSE, err |-> "parse", ret |-> NoIndex]
    ELSE [st |-> setupIndexWatcher([st EXCEPT !.cache = builtFrom(file),
                                              !.path = getIndexPath], getIndexPath),
          ok |-> TRUE, err |-> "none", ret |-> builtFrom(file)]

\* loadIndex(workspaceRoot, forceReload) run on index state st: the state after
\* the call, whether the call returned (ok) or threw (err says what), and the
\* index it returned
loadIndex(st, forceReload) ==
    IF st.cache # NoIndex /\ ~forceReload /\ st.path = getIndexPath
    THEN [st |-> st, ok |-> TRUE, err |-> "none", ret |-> st.cache]
    ELSE IF file.kind = "absent"
    THEN [st |-> st, ok |-> FALSE, err |-> "notFound", ret |-> NoIndex]
    ELSE IF file.kind = "malformed"
    THEN [st |-> st, ok |-> FALSE, err |-> "parse", ret |-> NoIndex]
    ELSE [st |-> setupIndexWatcher([st EXCEPT !.cache = builtFrom(file),
                                              !.path = getIndexPath], getIndexPath),
          ok |-> TRUE, err |-> "none", ret |-> builtFrom(file)]

SetIndex(st) ==
    /\ cachedIndex' = st.cache
    /\ cachedPath' = st.path
    /\ indexWatcher' = st.watcher
    /\ watchedPath' = st.wpath
    /\ liveWatchers' = st.live
    /\ watchEvents' = st.events

\* showCallGraph / preloadIndex: loadIndex(workspaceRoot); a throw is reported
\* or logged by the caller
UserLoadIndex ==
    /\ ~Urgent
    /\ SetIndex(loadIndex(IndexState, FALSE).st)
    /\ UNCHANGED <<pipelineVars, timerVars, regenVars, histVars, envVars>>

\* indexWatcher.onDidChange: reload inside try/catch
OnIndexChanged ==
    /\ ~Urgent
    /\ indexWatcher
    /\ "change" \in watchEvents
    /\ SetIndex(loadIndex([IndexState EXCEPT !.events = @ \ {"change"}], TRUE).st)
    /\ UNCHANGED <<pipelineVars, timerVars, regenVars, histVars, envVars>>

\* a delete handler that only logs
OnIndexDeletedKeepsCache ==
    /\ ~Urgent
    /\ indexWatcher
    /\ "delete" \in watchEvents
    /\ watchEvents' = watchEvents \ {"delete"}
    /\ UNCHANGED <<cachedIndex, cachedPath, indexWatcher, watchedPath, liveWatchers,
                   pipelineVars, timerVars, regenVars, histVars, envVars>>

\* indexWatcher.onDidDelete
OnIndexDeleted ==
    /\ ~Urgent
    /\ indexWatcher
    /\ "delete" \in watchEvents
    /\ cachedIndex' = NoIndex
    /\ cachedPath' = NoPath
    /\ watchEvents' = watchEvents \ {"delete"}
    /\ UNCHANGED <<indexWatcher, watchedPath, liveWatchers,
                   pipelineVars, timerVars, regenVars, histVars, envVars>>

\* environment: the file at pth is written (by a pipeline process or by hand)
\* or removed; a watcher armed on that path is notified of a change to, or the
\* deletion of, an existing file (it has no handler for a creation)
FileWrite(pth, c) ==
    /\ ~Urgent
    /\ c # files[pth]
    /\ files' = [files EXCEPT ![pth] = c]
    /\ watchEvents' = IF indexWatcher /\ watchedPath = pth /\ files[pth] # Absent
                      THEN watchEvents \cup {IF c = Absent THEN "delete" ELSE "change"}
                      ELSE watchEvents
    /\ UNCHANGED <<cachedIndex, cachedPath, indexWatcher, watchedPath, liveWatchers,
                   cfgPath, autoRegenerateOnSave, workspaceFolder, libVars, pipelineVars, timerVars, regenVars,
                   histVars>>

\* the dataset file of the configured location is written or removed
DatasetWrite(c) ==
    /\ c \in FileContents
    /\ FileWrite(getIndexPath, c)

\* ------------------------------------------------------------- pipeline supervisor
\* runPipeline() that reports a missing workspace folder as a failed run
runPipelineNoFolderIsError ==
    IF ~workspaceFolder
    THEN currentStatus' = "error" /\ UNCHANGED <<currentProcess, procState, runState, outPath>>
    ELSE /\ NextPid \in Pids
         /\ \E started \in BOOLEAN :
               procState' = [procState EXCEPT ![NextPid] = IF started THEN "alive" ELSE "failing"]
         /\ currentStatus' = "running"
         /\ currentProcess' = NextPid
         /\ runState' = [runState EXCEPT ![NextPid] = "pending"]
         /\ outPath' = [outPath EXCEPT ![NextPid] = getIndexPath]

\* runPipeline(): without a workspace folder it returns at once; otherwise
\* status update and cp.spawn; the spawn may fail, which the child reports
\* later through its 'error' event
\* (command and argument construction have no effect on the supervisor's state)
runPipeline ==
    IF ~workspaceFolder
    THEN UNCHANGED pipelineVars
    ELSE /\ NextPid \in Pids
         /\ \E started \in BOOLEAN :
               procState' = [procState EXCEPT ![NextPid] = IF started THEN "alive" ELSE "failing"]
         /\ currentStatus' = "running"
         /\ currentProcess' = NextPid
         /\ runState' = [runState EXCEPT ![NextPid] = "pending"]
         /\ outPath' = [outPath EXCEPT ![NextPid] = getIndexPath]

\* cancelPipeline() that forgets the status: the terminate request is sent and
\* the handle dropped, and the status is left for the exit event to settle
cancelPipelineKeepsStatus ==
    IF currentProcess # NoProcess
    THEN /\ procState' = [procState EXCEPT
                             ![currentProcess] = IF @ = "alive" THEN "killed" ELSE @]
         /\ currentProcess' = NoProcess
         /\ UNCHANGED <<currentStatus, runState, outPath>>
    ELSE UNCHANGED pipelineVars

\* cancelPipeline() that resets the status whether or not a process is tracked
cancelPipelineAlwaysIdle ==
    /\ procState' = IF currentProcess # NoProcess
                    THEN [procState EXCEPT
                             ![currentProcess] = IF @ = "alive" THEN "killed" ELSE @]
                    ELSE procState
    /\ currentProcess' = NoProcess
    /\ currentStatus' = "idle"
    /\ UNCHANGED <<runState, outPath>>

\* cancelPipeline()
cancelPipeline ==
    IF currentProcess # NoProcess
    THEN /\ procState' = [procState EXCEPT
                             ![currentProcess] = IF @ = "alive" THEN "killed" ELSE @]
         /\ currentProcess' = NoProcess
         /\ currentStatus' = "idle"
         /\ UNCHANGED <<runState, outPath>>
    ELSE UNCHANGED pipelineVars

\* command callGraph.cancelPipeline
CancelCommand ==
    /\ ~Urgent
    /\ cancelPipeline
    /\ UNCHANGED <<timerVars, regenVars, indexVars, histVars, envVars>>

\* triggerDebounced() without its clearTimeout: the pending timer stays scheduled
triggerDebouncedNoClear ==
    LET fresh == {t \in TimerIds : timers[t] = Unarmed}
    IN /\ fresh # {}
       /\ LET t == CHOOSE x \in fresh : \A y \in fresh : x <= y
          IN /\ timers' = [timers EXCEPT ![t] = DebounceTicks]
             /\ debounceTimer' = t
       /\ sinceTrigger' = 0
       /\ owed' = IF Armed = {} THEN owed + 1 ELSE owed
       /\ dropped' = FALSE

\* triggerDebounced(): clearTimeout of the pending timer, then setTimeout, which
\* returns a new handle (distinct from every handle still scheduled and from
\* the one just cleared)
triggerDebounced ==
    LET cleared == IF debounceTimer # NoTimer
                   THEN [timers EXCEPT ![debounceTimer] = Unarmed]
                   ELSE timers
        fresh == {t \in TimerIds : timers[t] = Unarmed}
    IN /\ fresh # {}
       /\ LET t == CHOOSE x \in fresh : \A y \in fresh : x <= y
          IN /\ timers' = [cleared EXCEPT ![t] = DebounceTicks]
             /\ debounceTimer' = t
       /\ sinceTrigger' = 0
       /\ owed' = IF Armed = {} THEN owed + 1 ELSE owed
       /\ dropped' = FALSE

\* a Rust-file watcher that is registered whatever the setting says
RustFileEventAlways ==
    /\ ~Urgent
    /\ triggerDebounced
    /\ UNCHANGED <<pipelineVars, regenVars, indexVars, histVars, envVars>>

\* a save or file event on a Rust file, delivered to the watcher and the save
\* listener that initializePipelineRunner registered when the setting was on
RustFileEvent ==
    /\ ~Urgent
    /\ autoRegenerateOnSave
    /\ triggerDebounced
    /\ UNCHANGED <<pipelineVars, regenVars, indexVars, histVars, envVars>>

\* the timer callback without its status check
debounceCallbackUnguarded(t) ==
    /\ timers[t] = 0
    /\ timers' = [timers EXCEPT ![t] = Unarmed]
    /\ debounceTimer' = NoTimer
    /\ owed' = owed - 1
    /\ dropped' = (currentStatus = "running")
    /\ UNCHANGED sinceTrigger
    /\ runPipeline

\* the callback given to setTimeout in triggerDebounced
debounceCallback(t) ==
    /\ timers[t] = 0
    /\ timers' = [timers EXCEPT ![t] = Unarmed]
    /\ debounceTimer' = NoTimer
    /\ owed' = owed - 1
    /\ dropped' = (currentStatus = "running")
    /\ UNCHANGED sinceTrigger
    /\ IF currentStatus # "running"
       THEN runPipeline
       ELSE UNCHANGED pipelineVars

TimerFires(t) ==
    /\ ~Urgent
    /\ debounceCallback(t)
    /\ UNCHANGED <<regenVars, indexVars, histVars, envVars>>

\* environment: the clock advances by one tick
Tick ==
    /\ ~Urgent
    /\ timers' = [t \in TimerIds |-> IF timers[t] > 0 THEN timers[t] - 1 ELSE timers[t]]
    /\ sinceTrigger' = IF sinceTrigger < DebounceTicks THEN sinceTrigger + 1 ELSE sinceTrigger
    /\ UNCHANGED <<debounceTimer, owed, dropped, pipelineVars, regenVars, indexVars, histVars, envVars>>

\* regenerateIndex(), up to its first await: the status check
RegenerateIndex ==
    /\ ~Urgent
    /\ workspaceFolder
    /\ regenPrereq + regenDialog < MaxRegen
    /\ IF currentStatus = "running"
       THEN regenDialog' = regenDialog + 1 /\ UNCHANGED regenPrereq
       ELSE regenPrereq' = regenPrereq + 1 /\ UNCHANGED regenDialog
    /\ UNCHANGED <<pipelineVars, timerVars, indexVars, histVars, envVars>>

\* regenerateIndex(): the "already running" dialog is answered
RegenDialogAnswered(cancel) ==
    /\ ~Urgent
    /\ regenDialog > 0
    /\ regenDialog' = regenDialog - 1
    /\ IF cancel THEN cancelPipeline ELSE UNCHANGED pipelineVars
    /\ UNCHANGED <<regenPrereq, timerVars, indexVars, histVars, envVars>>

\* regenerateIndex(): checkPrerequisites() has resolved (and the user has
\* chosen, when a prerequisite is missing); proceed = await runPipeline()
RegenPrereqDone(proceed) ==
    /\ ~Urgent
    /\ regenPrereq > 0
    /\ regenPrereq' = regenPrereq - 1
    /\ IF proceed THEN runPipeline ELSE UNCHANGED pipelineVars
    /\ UNCHANGED <<regenDialog, timerVars, indexVars, histVars, envVars>>

\* an error handler that reports the failure and leaves the handle in place
onErrorKeepsHandle(p) ==
    /\ currentStatus' = "error"
    /\ errorShown' = errorShown \cup {p}
    /\ runState' = [runState EXCEPT ![p] = IF @ = "pending" THEN "resolved" ELSE @]
    /\ UNCHANGED currentProcess

\* currentProcess.on('error', ...) of the run of process p
onError(p) ==
    /\ currentStatus' = "error"
    /\ currentProcess' = NoProcess
    /\ errorShown' = errorShown \cup {p}
    /\ runState' = [runState EXCEPT ![p] = IF @ = "pending" THEN "resolved" ELSE @]

\* the child failed to start: its 'error' event is delivered
ProcError(p) ==
    /\ procState[p] = "failing"
    /\ procState' = [procState EXCEPT ![p] = "errored"]
    /\ onError(p)
    /\ UNCHANGED <<timerVars, regenVars, indexVars, envVars, outPath, reloaded>>

\* a close handler that skips the reload and resolves at once
onCloseNoReload(p, code) ==
    /\ currentProcess' = NoProcess
    /\ currentStatus' = IF code = 0 THEN "success" ELSE "error"
    /\ errorShown' = IF code = 0 THEN errorShown ELSE errorShown \cup {p}
    /\ runState' = [runState EXCEPT ![p] = IF @ = "pending" THEN "resolved" ELSE @]
    /\ UNCHANGED <<indexVars, reloaded>>

\* a close handler that reloads the index whatever the exit code
onCloseAlwaysReloads(p, code) ==
    /\ currentProcess' = NoProcess
    /\ currentStatus' = IF code = 0 THEN "success" ELSE "error"
    /\ errorShown' = IF code = 0 THEN errorShown ELSE errorShown \cup {p}
    /\ SetIndex(loadIndex(clearCache(IndexState), TRUE).st)
    /\ reloaded' = reloaded \cup {p}
    /\ runState' = [runState EXCEPT ![p] = IF @ = "pending" THEN "awaitReload" ELSE @]

\* a close handler whose reload is not inside try/catch: when loadIndex throws,
\* the handler stops there and resolve() is never reached
onCloseUncaught(p, code) ==
    /\ currentProcess' = NoProcess
    /\ IF code = 0
       THEN /\ currentStatus' = "success"
            /\ SetIndex(loadIndex(clearCache(IndexState), TRUE).st)
            /\ reloaded' = reloaded \cup {p}
            /\ runState' = [runState EXCEPT
                               ![p] = IF @ = "pending" /\ loadIndex(clearCache(IndexState), TRUE).ok
                                      THEN "awaitReload" ELSE @]
            /\ UNCHANGED errorShown
       ELSE /\ currentStatus' = "error"
            /\ errorShown' = errorShown \cup {p}
            /\ runState' = [runState EXCEPT ![p] = IF @ = "pending" THEN "resolved" ELSE @]
            /\ UNCHANGED <<indexVars, reloaded>>

\* a close handler that settles the status and leaves the handle in place
onCloseKeepsHandle(p, code) ==
    /\ UNCHANGED currentProcess
    /\ IF code = 0
       THEN /\ currentStatus' = "success"
            /\ SetIndex(loadIndex(clearCache(IndexState), TRUE).st)
            /\ reloaded' = reloaded \cup {p}
            /\ runState' = [runState EXCEPT ![p] = IF @ = "pending" THEN "awaitReload" ELSE @]
            /\ UNCHANGED errorShown
       ELSE /\ currentStatus' = "error"
            /\ errorShown' = errorShown \cup {p}
            /\ runState' = [runState EXCEPT ![p] = IF @ = "pending" THEN "resolved" ELSE @]
            /\ UNCHANGED <<indexVars, reloaded>>

\* currentProcess.on('close', async (code) => ...) of the run of process p, up to
\* its await: code 0 reloads the index, any other code (or a signal) is a failure
onClose(p, code) ==
    /\ currentProcess' = NoProcess
    /\ IF code = 0
       THEN /\ currentStatus' = "success"
            /\ SetIndex(loadIndex(clearCache(IndexState), TRUE).st)
            /\ reloaded' = reloaded \cup {p}
            /\ runState' = [runState EXCEPT ![p] = IF @ = "pending" THEN "awaitReload" ELSE @]
            /\ UNCHANGED errorShown
       ELSE /\ currentStatus' = "error"
            /\ errorShown' = errorShown \cup {p}
            /\ runState' = [runState EXCEPT ![p] = IF @ = "pending" THEN "resolved" ELSE @]
            /\ UNCHANGED <<indexVars, reloaded>>

\* the child has ended and its streams are closed: its 'close' event is
\* delivered (after 'error' too when it failed to start)
ProcClose(p, code) ==
    /\ ~Urgent
    /\ \/ procState[p] \in {"alive", "killed"}
       \/ procState[p] = "errored" /\ code # 0
    /\ procState' = [procState EXCEPT ![p] = IF code = 0 THEN "exit0" ELSE "exitN"]
    /\ onClose(p, code)
    /\ UNCHANGED <<timerVars, regenVars, envVars, outPath>>

\* the close handler resumes after await loadIndex(...): updateStatusBar(); resolve()
onCloseResume(p) ==
    /\ runState[p] = "awaitReload"
    /\ runState' = [runState EXCEPT ![p] = "resolved"]
    /\ UNCHANGED <<currentStatus, currentProcess, procState, outPath>>

CloseResumes(p) ==
    /\ onCloseResume(p)
    /\ UNCHANGED <<timerVars, regenVars, indexVars, histVars, envVars>>

Next ==
    \/ UserLoadIndex
    \/ OnIndexChanged
    \/ OnIndexDeleted
    \/ \E c \in FileContents : DatasetWrite(c)
    \/ CancelCommand
    \/ RustFileEvent
    \/ \E t \in TimerIds : TimerFires(t)
    \/ Tick
    \/ RegenerateIndex
    \/ \E cancel \in BOOLEAN : RegenDialogAnswered(cancel)
    \/ \E proceed \in BOOLEAN : RegenPrereqDone(proceed)
    \/ \E p \in Pids, code \in ExitCodes : ProcClose(p, code)
    \/ \E p \in Pids : ProcError(p)
    \/ \E p \in Pids : CloseResumes(p)

Spec == Init /\ [][Next]_vars

\* the user edits the callGraph.indexPath setting; getIndexPath reads the
\* setting at each call and nothing listens for the change
ConfigChange ==
    /\ ~Urgent
    /\ \E pth \in Paths \ {cfgPath} : cfgPath' = pth
    /\ UNCHANGED <<files, autoRegenerateOnSave, workspaceFolder, libVars, pipelineVars, timerVars, regenVars,
                   indexVars, histVars>>

\* the index manager alone with a configurable dataset location: either
\* location may be configured at activation, and the files at both locations
\* hold anything a JSON file can hold
InitIndex ==
    /\ currentStatus = "idle"
    /\ currentProcess = NoProcess
    /\ debounceTimer = NoTimer
    /\ cachedIndex = NoIndex
    /\ cachedPath = NoPath
    /\ indexWatcher = FALSE
    /\ watchedPath = NoPath
    /\ liveWatchers = 0
    /\ cfgPath \in Paths
    /\ autoRegenerateOnSave = FALSE
    /\ workspaceFolder = TRUE
    /\ outPath = [p \in Pids |-> NoPath]
    /\ procState = [p \in Pids |-> "none"]
    /\ runState = [p \in Pids |-> "none"]
    /\ timers = [t \in TimerIds |-> Unarmed]
    /\ regenPrereq = 0
    /\ regenDialog = 0
    /\ files \in [Paths -> AnyContents]
    /\ graph = EmptyGraph
    /\ index = buildIndex(EmptyGraph, NoPath)
    /\ options = NoOptions
    /\ settings = DefaultSettings
    /\ invocation = NoInvocation
    /\ NoChecks
    /\ NoLookup
    /\ watchEvents = {}
    /\ sinceTrigger = DebounceTicks
    /\ owed = 0
    /\ dropped = FALSE
    /\ reloaded = {}
    /\ errorShown = {}

NextIndex ==
    \/ UserLoadIndex
    \/ OnIndexChanged
    \/ OnIndexDeleted
    \/ \E pth \in Paths, c \in AnyContents : FileWrite(pth, c)
    \/ ConfigChange

SpecIndex == InitIndex /\ [][NextIndex]_vars

\* the supervisor while the user edits the location setting
NextRelocate ==
    \/ \E c \in FileContents : DatasetWrite(c)
    \/ ConfigChange
    \/ CancelCommand
    \/ RegenerateIndex
    \/ \E cancel \in BOOLEAN : RegenDialogAnswered(cancel)
    \/ \E proceed \in BOOLEAN : RegenPrereqDone(proceed)
    \/ \E p \in Pids, code \in ExitCodes : ProcClose(p, code)
    \/ \E p \in Pids : ProcError(p)
    \/ \E p \in Pids : CloseResumes(p)

SpecRelocate == Init /\ [][NextRelocate]_vars

\* the index builder alone: a dataset file has been parsed into any graph of
\* the bounded universe, and buildIndex is applied to it
InitBuild ==
    /\ currentStatus = "idle"
    /\ currentProcess = NoProcess
    /\ debounceTimer = NoTimer
    /\ cachedIndex = NoIndex
    /\ cachedPath = NoPath
    /\ indexWatcher = FALSE
    /\ watchedPath = NoPath
    /\ liveWatchers = 0
    /\ cfgPath = "default"
    /\ autoRegenerateOnSave = FALSE
    /\ workspaceFolder = TRUE
    /\ outPath = [p \in Pids |-> NoPath]
    /\ procState = [p \in Pids |-> "none"]
    /\ runState = [p \in Pids |-> "none"]
    /\ timers = [t \in TimerIds |-> Unarmed]
    /\ regenPrereq = 0
    /\ regenDialog = 0
    /\ files = [pth \in Paths |-> Absent]
    /\ graph \in Graphs
    /\ index = buildIndex(EmptyGraph, NoPath)
    /\ options = NoOptions
    /\ settings = DefaultSettings
    /\ invocation = NoInvocation
    /\ NoChecks
    /\ NoLookup
    /\ watchEvents = {}
    /\ sinceTrigger = DebounceTicks
    /\ owed = 0
    /\ dropped = FALSE
    /\ reloaded = {}
    /\ errorShown = {}

\* const index = buildIndex(graph, indexPath) in loadIndex
BuildIndex ==
    /\ index' = buildIndex(graph, getIndexPath)
    /\ UNCHANGED <<graph, cmdVars, prereqVars, lookupVars, files, cfgPath,
                   autoRegenerateOnSave, workspaceFolder, pipelineVars, timerVars, regenVars, indexVars,
                   histVars>>

NextBuild == BuildIndex

SpecBuild == InitBuild /\ [][NextBuild]_vars

\* ------------------------------------------------------------- lookups
\* filePath.includes('/src/'), and the place of the first occurrence
includesSrc(filePath) ==
    \E i \in 1..(Len(filePath) - 2) :
        filePath[i] = "/" /\ filePath[i + 1] = "src" /\ filePath[i + 2] = "/"
indexOfSrc(filePath) ==
    CHOOSE i \in 1..(Len(filePath) - 2) :
        /\ filePath[i] = "/" /\ filePath[i + 1] = "src" /\ filePath[i + 2] = "/"
        /\ \A j \in 1..(i - 1) :
              ~(filePath[j] = "/" /\ filePath[j + 1] = "src" /\ filePath[j + 2] = "/")
\* path.basename(filePath): what follows the last separator
basename(filePath) ==
    LET seps == {i \in 1..Len(filePath) : filePath[i] = "/"}
    IN IF seps = {} THEN filePath
       ELSE SubSeq(filePath, (CHOOSE i \in seps : \A j \in seps : j <= i) + 1, Len(filePath))
\* key.endsWith(suffix)
endsWith(key, suffix) ==
    /\ Len(suffix) <= Len(key)
    /\ SubSeq(key, Len(key) - Len(suffix) + 1, Len(key)) = suffix

RECURSIVE firstKeyEndingWith(_, _, _)
\* for (const [key, map] of index.nodesByLine) if (key.endsWith(fileName) ||
\* key.endsWith('/' + fileName)) { lineMap = map; break; }: the position of
\* the key taken, 0 when the loop ends without one
firstKeyEndingWith(keys, fileName, i) ==
    IF i > Len(keys) THEN 0
    ELSE IF endsWith(keys[i], fileName) \/ endsWith(keys[i], <<"/">> \o fileName) THEN i
    ELSE firstKeyEndingWith(keys, fileName, i + 1)

\* findNodeAtPosition(index, filePath, line)
findNodeAtPosition(idx, filePath, line) ==
    LET relativePath == IF includesSrc(filePath)
                        THEN SubSeq(filePath, indexOfSrc(filePath) + 1, Len(filePath))
                        ELSE basename(filePath)
        byLine == idx.nodesByLine
        k == firstKeyEndingWith(byLine.keys, basename(filePath), 1)
        lineMap == IF MapHas(byLine, relativePath) THEN Some(byLine.at[relativePath])
                   ELSE IF k # 0 THEN Some(byLine.at[byLine.keys[k]])
                   ELSE None
    IN IF lineMap = None THEN None
       ELSE IF MapHas(lineMap[1], line) THEN Some(lineMap[1].at[line])
       ELSE None

\* findNodesByName(index, name): index.nodesByDisplayName.get(name) || []
findNodesByName(idx, name) == MapGetOr(idx.nodesByDisplayName, name, <<>>)

\* a lookup by id that falls back to the first node of the index
findNodeByIdOrFirst(idx, id) ==
    IF MapHas(idx.nodesById, id) THEN Some(idx.nodesById.at[id])
    ELSE IF MapSize(idx.nodesById) > 0 THEN Some(idx.nodesById.at[idx.nodesById.keys[1]])
    ELSE None

\* findNodeById(index, id): index.nodesById.get(id) || null
findNodeById(idx, id) ==
    IF MapHas(idx.nodesById, id) THEN Some(idx.nodesById.at[id]) ELSE None

\* the lookups alone: a dataset file has been parsed into any of the queried
\* graphs, buildIndex is applied to it and the index is queried
InitLookup ==
    /\ AtRest
    /\ cfgPath \in Paths
    /\ graph \in QueriedGraphs
    /\ index = buildIndex(EmptyGraph, NoPath)
    /\ options = NoOptions
    /\ settings = DefaultSettings
    /\ invocation = NoInvocation
    /\ NoChecks
    /\ NoLookup

\* what a lookup leaves alone
LookupFrame ==
    UNCHANGED <<graph, index, cmdVars, prereqVars, files, cfgPath, autoRegenerateOnSave, workspaceFolder,
                pipelineVars, timerVars, regenVars, indexVars, histVars>>

FindNodeAtPosition(filePath, line) ==
    /\ index.metadata.indexPath # NoPath
    /\ query' = [kind |-> "position", arg |-> filePath, line |-> line]
    /\ found' = findNodeAtPosition(index, filePath, line)
    /\ LookupFrame

FindNodesByName(name) ==
    /\ index.metadata.indexPath # NoPath
    /\ query' = [kind |-> "name", arg |-> name, line |-> 0]
    /\ found' = Some(findNodesByName(index, name))
    /\ LookupFrame

FindNodeById(id) ==
    /\ index.metadata.indexPath # NoPath
    /\ query' = [kind |-> "id", arg |-> id, line |-> 0]
    /\ found' = findNodeById(index, id)
    /\ LookupFrame

NextLookup ==
    \/ BuildIndex
    \/ \E f \in SourceFiles, l \in Lines : FindNodeAtPosition(AbsolutePath(f), l)
    \/ \E d \in DisplayNames \cup {UnknownName} : FindNodesByName(d)
    \/ \E i \in NodeIds \cup {UnknownId} : FindNodeById(i)

SpecLookup == InitLookup /\ [][NextLookup]_vars

\* ------------------------------------------------------------- command construction
\* options?.flag ?? config.get(flag, default): an explicit value wins
orConfig(opt, configured) == IF opt # None THEN opt[1] ELSE configured

\* if (options?.text): a string that is present and not empty
truthyString(opt) == opt # None /\ opt[1] # ""

\* a command construction that takes the configured flag whenever the option
\* is not true (options.flag || config.get(flag))
buildCommandOrConfig(opts, cfg, workspaceRoot, indexPath) ==
    LET skipVerification == (opts.skipVerification = Some(TRUE)) \/ cfg.skipVerification
        skipSimilarLemmas == (opts.skipSimilarLemmas = Some(TRUE)) \/ cfg.skipSimilarLemmas
        base == IF cfg.scipCallgraph = "source"
                THEN <<"run", "--release", "-p", "metrics-cli", "--bin", "pipeline", "--",
                       workspaceRoot, "-o", indexPath>>
                ELSE <<workspaceRoot, "-o", indexPath>>
        a1 == IF skipVerification THEN Append(base, "--skip-verification") ELSE base
        a2 == IF skipSimilarLemmas THEN Append(a1, "--skip-similar-lemmas") ELSE a1
        a3 == IF opts.useCachedScip = Some(TRUE) THEN Append(a2, "--use-cached-scip") ELSE a2
        a4 == IF truthyString(opts.package) THEN a3 \o <<"-p", opts.package[1]>> ELSE a3
        a5 == IF truthyString(opts.githubUrl) THEN a4 \o <<"--github-url", opts.githubUrl[1]>> ELSE a4
    IN [command |-> CASE cfg.scipCallgraph = "binary" -> "releaseBinary"
                      [] cfg.scipCallgraph = "source" -> "cargo"
                      [] OTHER -> "pipeline",
        args |-> a5]

\* runPipeline, lines 128-189: the command and the argument list given to cp.spawn
buildCommand(opts, cfg, workspaceRoot, indexPath) ==
    LET skipVerification == orConfig(opts.skipVerification, cfg.skipVerification)
        skipSimilarLemmas == orConfig(opts.skipSimilarLemmas, cfg.skipSimilarLemmas)
        base == IF cfg.scipCallgraph = "source"
                THEN <<"run", "--release", "-p", "metrics-cli", "--bin", "pipeline", "--",
                       workspaceRoot, "-o", indexPath>>
                ELSE <<workspaceRoot, "-o", indexPath>>
        a1 == IF skipVerification THEN Append(base, "--skip-verification") ELSE base
        a2 == IF skipSimilarLemmas THEN Append(a1, "--skip-similar-lemmas") ELSE a1
        a3 == IF opts.useCachedScip = Some(TRUE) THEN Append(a2, "--use-cached-scip") ELSE a2
        a4 == IF truthyString(opts.package) THEN a3 \o <<"-p", opts.package[1]>> ELSE a3
        a5 == IF truthyString(opts.githubUrl) THEN a4 \o <<"--github-url", opts.githubUrl[1]>> ELSE a4
    IN [command |-> CASE cfg.scipCallgraph = "binary" -> "releaseBinary"
                      [] cfg.scipCallgraph = "source" -> "cargo"
                      [] OTHER -> "pipeline",
        args |-> a5]

\* command construction alone: runPipeline is called with any options under
\* any settings
InitCommand ==
    /\ AtRest
    /\ cfgPath \in Paths
    /\ graph = EmptyGraph
    /\ index = buildIndex(EmptyGraph, NoPath)
    /\ options \in PipelineOptions
    /\ settings \in Settings
    /\ invocation = NoInvocation
    /\ NoChecks
    /\ NoLookup

\* runPipeline(options) up to the spawn: cp.spawn(command, args, ...)
BuildCommand ==
    /\ invocation' = buildCommand(options, settings, WorkspaceRoot, getIndexPath)
    /\ UNCHANGED <<graph, index, options, settings, prereqVars, lookupVars, files, cfgPath,
                   autoRegenerateOnSave, workspaceFolder, pipelineVars, timerVars, regenVars, indexVars,
                   histVars>>

NextCommand == BuildCommand

SpecCommand == InitCommand /\ [][NextCommand]_vars

\* ------------------------------------------------------------- checkPrerequisites
\* what the call pushes onto missing for a tool
missingEntry(tool) ==
    IF tool = "verus-analyzer"
    THEN "verus-analyzer (not found in PATH)"
    ELSE "scip (download from https://github.com/sourcegraph/scip/releases or build with: git clone https://github.com/sourcegraph/scip.git && cd scip && go build ./cmd/scip)"

\* a catch block that reports every tool, the optional one included
onProbeFailedReportsAll(st, tool) ==
    [st EXCEPT !.missing = Append(@, IF tool \in RequiredTools THEN missingEntry(tool)
                                      ELSE "cargo verus")]

\* the catch block of a probe: a required tool is pushed onto missing, the
\* optional one is logged
onProbeFailed(st, tool) ==
    IF tool \in RequiredTools
    THEN [st EXCEPT !.missing = Append(@, missingEntry(tool))]
    ELSE [st EXCEPT !.logged = TRUE]

\* checkPrerequisites() is called: a fresh missing array, the first probe starts
CheckPrerequisites(c) ==
    /\ checkPc[c] = 0
    /\ checkPc' = [checkPc EXCEPT ![c] = 1]
    /\ missing' = [missing EXCEPT ![c] = <<>>]
    /\ prereqs' = [prereqs EXCEPT ![c] = Pending]
    /\ probes' = [probes EXCEPT ![c] = <<>>]
    /\ logged' = [logged EXCEPT ![c] = FALSE]
    /\ UNCHANGED <<toolOk, graph, index, cmdVars, lookupVars, files, cfgPath, autoRegenerateOnSave, workspaceFolder,
                   pipelineVars, timerVars, regenVars, indexVars, histVars>>

\* the awaited executeCommand settles: the call goes on to the next probe, or
\* after the last one returns {ok: missing.length === 0, missing}
ProbeSettles(c) ==
    /\ checkPc[c] \in 1..Len(Tools)
    /\ LET tool == Tools[checkPc[c]]
           failed == ~toolOk[tool]
           before == [missing |-> missing[c], logged |-> logged[c]]
           st == IF failed THEN onProbeFailed(before, tool) ELSE before
       IN /\ missing' = [missing EXCEPT ![c] = st.missing]
          /\ logged' = [logged EXCEPT ![c] = st.logged]
          /\ probes' = [probes EXCEPT ![c] = Append(@, [tool |-> tool, failed |-> failed])]
          /\ IF checkPc[c] < Len(Tools)
             THEN /\ checkPc' = [checkPc EXCEPT ![c] = @ + 1]
                  /\ UNCHANGED prereqs
             ELSE /\ checkPc' = [checkPc EXCEPT ![c] = 0]
                  /\ prereqs' = [prereqs EXCEPT ![c] =
                                    [state |-> "resolved", ok |-> Len(st.missing) = 0,
                                     missing |-> st.missing]]
    /\ UNCHANGED <<toolOk, graph, index, cmdVars, lookupVars, files, cfgPath, autoRegenerateOnSave, workspaceFolder,
                   pipelineVars, timerVars, regenVars, indexVars, histVars>>

\* a tool is installed or removed
ToolChange(tool) ==
    /\ toolOk' = [toolOk EXCEPT ![tool] = ~@]
    /\ UNCHANGED <<checkPc, missing, prereqs, probes, logged, graph, index, cmdVars,
                   lookupVars,
                   files, cfgPath, autoRegenerateOnSave, workspaceFolder, pipelineVars, timerVars,
                   regenVars, indexVars, histVars>>

\* checkPrerequisites alone: calls from the two commands that use it, against
\* a changing environment
InitCheck ==
    /\ AtRest
    /\ cfgPath = "default"
    /\ graph = EmptyGraph
    /\ index = buildIndex(EmptyGraph, NoPath)
    /\ options = NoOptions
    /\ settings = DefaultSettings
    /\ invocation = NoInvocation
    /\ toolOk \in [{Tools[i] : i \in 1..Len(Tools)} -> BOOLEAN]
    /\ checkPc = [c \in CheckIds |-> 0]
    /\ missing = [c \in CheckIds |-> <<>>]
    /\ prereqs = [c \in CheckIds |-> NoResult]
    /\ probes = [c \in CheckIds |-> <<>>]
    /\ logged = [c \in CheckIds |-> FALSE]
    /\ NoLookup

NextCheck ==
    \/ \E c \in CheckIds : CheckPrerequisites(c)
    \/ \E c \in CheckIds : ProbeSettles(c)
    \/ \E i \in 1..Len(Tools) : ToolChange(Tools[i])

\* cp.execFile calls its callback once the version command has ended
SpecCheck ==
    /\ InitCheck
    /\ [][NextCheck]_vars
    /\ \A c \in CheckIds : WF_vars(ProbeSettles(c))

\* the supervisor alone (commands, cancellation, process events, the dataset
\* file), with every spawned process eventually delivering its events and
\* every queued continuation eventually run
NextRun ==
    \/ \E c \in FileContents : DatasetWrite(c)
    \/ CancelCommand
    \/ RegenerateIndex
    \/ \E cancel \in BOOLEAN : RegenDialogAnswered(cancel)
    \/ \E proceed \in BOOLEAN : RegenPrereqDone(proceed)
    \/ \E p \in Pids, code \in ExitCodes : ProcClose(p, code)
    \/ \E p \in Pids : ProcError(p)
    \/ \E p \in Pids : CloseResumes(p)

\* the last workspace folder is removed, or a folder is added to an empty
\* workspace
WorkspaceChange ==
    /\ ~Urgent
    /\ workspaceFolder' = ~workspaceFolder
    /\ UNCHANGED <<files, cfgPath, autoRegenerateOnSave, libVars, pipelineVars, timerVars,
                   regenVars, indexVars, histVars>>

\* the supervisor with its timers, in a workspace whose folders come and go
\* (the dataset file keeps the content it starts with)
NextWorkspace ==
    \/ WorkspaceChange
    \/ CancelCommand
    \/ RustFileEvent
    \/ \E t \in TimerIds : TimerFires(t)
    \/ Tick
    \/ RegenerateIndex
    \/ \E cancel \in BOOLEAN : RegenDialogAnswered(cancel)
    \/ \E proceed \in BOOLEAN : RegenPrereqDone(proceed)
    \/ \E p \in Pids, code \in ExitCodes : ProcClose(p, code)
    \/ \E p \in Pids : ProcError(p)
    \/ \E p \in Pids : CloseResumes(p)

SpecWorkspace == Init /\ [][NextWorkspace]_vars

\* autoRegenerateOnSave at its default: no watcher on the Rust files
InitRun == Init /\ ~autoRegenerateOnSave

SpecRun ==
    /\ InitRun
    /\ [][NextRun]_vars
    /\ \A p \in Pids :
          /\ WF_vars(ProcError(p))
          /\ WF_vars(\E code \in ExitCodes : ProcClose(p, code))
          /\ WF_vars(CloseResumes(p))

\* the supervisor left unattended: Regenerate Index is the only command given,
\* nobody cancels, and a spawned process may run for ever; cp.spawn is given
\* no timeout and no timer of the module kills currentProcess, so only the
\* steps of the program itself are certain to happen (a failed spawn delivers
\* its 'error' event, a queued continuation is run)
NextUnattended ==
    \/ \E c \in FileContents : DatasetWrite(c)
    \/ RegenerateIndex
    \/ \E cancel \in BOOLEAN : RegenDialogAnswered(cancel)
    \/ \E proceed \in BOOLEAN : RegenPrereqDone(proceed)
    \/ \E p \in Pids, code \in ExitCodes : ProcClose(p, code)
    \/ \E p \in Pids : ProcError(p)
    \/ \E p \in Pids : CloseResumes(p)

SpecUnattended ==
    /\ InitRun
    /\ [][NextUnattended]_vars
    /\ \A p \in Pids :
          /\ WF_vars(ProcError(p))
          /\ WF_vars(CloseResumes(p))

\* autoRegenerateOnSave switched on: saved Rust files arm the debounce timer
InitBackground == Init /\ autoRegenerateOnSave

\* the extension with the Regenerate Index command never given: every call of
\* runPipeline comes from the debounce timer's callback
NextBackground ==
    \/ UserLoadIndex
    \/ OnIndexChanged
    \/ OnIndexDeleted
    \/ \E c \in FileContents : DatasetWrite(c)
    \/ CancelCommand
    \/ RustFileEvent
    \/ \E t \in TimerIds : TimerFires(t)
    \/ Tick
    \/ \E p \in Pids, code \in ExitCodes : ProcClose(p, code)
    \/ \E p \in Pids : ProcError(p)
    \/ \E p \in Pids : CloseResumes(p)

SpecBackground == InitBackground /\ [][NextBackground]_vars

\* ------------------------------------------------------------- properties
\* steps in which the environment delivers the 'close' event of process p
Closes(p) == procState[p] \notin {"exit0", "exitN"} /\ procState'[p] \in {"exit0", "exitN"}

\* C1: at every instant at most one external pipeline process is alive (a
\* process sent a terminate request counts until it has exited).
C1_AtMostOneProcessAlive == Cardinality(Alive) <= 1

\* C2: a runPipeline call made while status is Running spawns no process and
\* leaves the status and the tracked process handle unchanged.
C2_RunWhileRunningIsNoOp ==
    [][currentStatus = "running" =>
          /\ Spawned' = Spawned
          /\ regenPrereq' < regenPrereq => UNCHANGED <<currentStatus, currentProcess>>]_vars

\* C3: cancellation isolation: when a cancelled process's close event arrives
\* after a new run has started, the new run's status and tracked handle are
\* left as they are.
C3_CancellationIsolation ==
    [][\A p \in Pids :
          procState[p] = "killed" /\ Closes(p) /\ currentProcess # NoProcess
          => UNCHANGED <<currentStatus, currentProcess>>]_vars

\* C4: cancelPipeline() on an active process sends the terminate request and,
\* in the same step, with the process not yet exited, sets the status to Idle
\* and clears the tracked handle; only the tracked process is ever sent one.
C4_CancelIsImmediate ==
    [][/\ (CancelCommand \/ RegenDialogAnswered(TRUE)) /\ currentProcess # NoProcess
          => /\ procState'[currentProcess] = "killed"
             /\ currentStatus' = "idle"
             /\ currentProcess' = NoProcess
       /\ \A p \in Pids :
             procState[p] # "killed" /\ procState'[p] = "killed"
             => p = currentProcess /\ currentStatus' = "idle" /\ currentProcess' = NoProcess]_vars

C4_Witness ==
    \E p \in Pids :
        procState[p] = "killed" /\ currentStatus = "idle" /\ currentProcess = NoProcess

\* C5: a cancelled run is not reported as a failure: the close event of a
\* process that was sent a terminate request changes no status and raises no
\* failure notification.
C5_CancelIsNotFailure ==
    [][\A p \in Pids :
          procState[p] = "killed" /\ Closes(p)
          => currentStatus' = currentStatus /\ errorShown' = errorShown]_vars

\* C6: debounce: at most one timer is pending at any time, each burst of
\* triggers gets exactly one timer callback, the callback runs only once the
\* delay has elapsed since the last trigger, and it calls runPipeline when no
\* run is in progress.
C6_Debounce ==
    /\ [](Cardinality(Armed) <= 1 /\ owed = Cardinality(Armed))
    /\ [][owed' < owed =>
             /\ sinceTrigger >= DebounceTicks
             /\ currentStatus # "running" => Cardinality(Spawned') = Cardinality(Spawned) + 1]_vars

\* a burst of at least two triggers (the handle is not the first one) whose
\* only pending timer is due, the delay having elapsed since the last trigger
C6_Witness ==
    /\ debounceTimer > 1
    /\ Armed = {debounceTimer}
    /\ timers[debounceTimer] = 0
    /\ sinceTrigger = DebounceTicks
    /\ owed = 1

\* C7: a timer callback that finds a run in progress drops the scheduled run:
\* it spawns nothing, leaves no timer armed, and processes are spawned only by
\* a timer callback that finds no run in progress or by the command, never by
\* the end of a run.
C7_DroppedNotQueued ==
    [][/\ owed' < owed /\ currentStatus = "running"
          => /\ Spawned' = Spawned
             /\ debounceTimer' = NoTimer
             /\ Armed' = {}
             /\ UNCHANGED pipelineVars
       /\ Spawned' # Spawned
          => \/ owed' < owed /\ currentStatus # "running"
             \/ regenPrereq' < regenPrereq]_vars

\* the run that made the callback drop has ended and no other run was started
C7_Witness ==
    /\ dropped
    /\ Armed = {}
    /\ debounceTimer = NoTimer
    /\ currentStatus \in {"success", "error"}
    /\ Cardinality(Spawned) = 1
    /\ regenPrereq = 0

\* C8: the status starts as Idle and changes only along Idle->Running,
\* Success->Running, Error->Running, Running->Success, Running->Error and
\* Running->Idle.
StatusTransitions ==
    {<<"idle", "running">>, <<"success", "running">>, <<"error", "running">>,
     <<"running", "success">>, <<"running", "error">>, <<"running", "idle">>}

C8_StatusTransitions ==
    /\ currentStatus = "idle"
    /\ [][currentStatus' # currentStatus
             => <<currentStatus, currentStatus'>> \in StatusTransitions]_vars

\* C9: when a run's process exits with code 0 the status becomes Success and
\* the forced reload is made in that step (the cache is dropped and rebuilt
\* from the dataset file); the run's promise is still pending then and is
\* resolved only afterwards.
C9_SuccessReloadsThenResolves ==
    /\ [][\A p \in Pids :
             Closes(p) /\ procState'[p] = "exit0"
             => /\ currentStatus' = "success"
                /\ p \notin reloaded /\ p \in reloaded'
                /\ cachedIndex' = IF file.kind = "graph" THEN builtFrom(file) ELSE NoIndex
                /\ runState[p] = "pending" /\ runState'[p] = "awaitReload"]_vars
    /\ [][\A p \in Pids :
             runState[p] # "resolved" /\ runState'[p] = "resolved" /\ procState'[p] = "exit0"
             => runState[p] = "awaitReload" /\ p \in reloaded]_vars

C9_Witness ==
    \E p \in Pids :
        /\ procState[p] = "exit0"
        /\ runState[p] = "resolved"
        /\ p \in reloaded
        /\ currentStatus = "success"
        /\ cachedIndex # NoIndex

\* C10: when a run's process exits with a nonzero code the status becomes
\* Error, the run's promise is resolved (not rejected), and no reload is made:
\* the cached index and its watcher are unchanged.
C10_FailureResolvesWithoutReload ==
    [][\A p \in Pids :
          Closes(p) /\ procState'[p] = "exitN"
          => /\ currentStatus' = "error"
             /\ runState'[p] = "resolved"
             /\ reloaded' = reloaded
             /\ UNCHANGED <<cachedIndex, indexWatcher, watchEvents>>]_vars

C10_Witness ==
    \E p \in Pids :
        /\ procState[p] = "exitN"
        /\ p \notin reloaded
        /\ runState[p] = "resolved"
        /\ currentStatus = "error"
        /\ cachedIndex # NoIndex
        /\ indexWatcher

\* C11: when the pipeline cannot be started, the 'error' event of the run's
\* process sets the status to Error, clears the tracked handle (which is that
\* process) and resolves the run's promise, and neither it nor the 'close'
\* event that follows reloads the index: the cache and its watcher are unchanged.
C11_SpawnFailure ==
    [][\A p \in Pids :
          /\ procState[p] = "failing" /\ procState'[p] = "errored"
             => /\ currentProcess = p
                /\ currentStatus' = "error"
                /\ currentProcess' = NoProcess
                /\ runState'[p] = "resolved"
                /\ reloaded' = reloaded
                /\ UNCHANGED indexVars
          /\ procState[p] = "errored" /\ Closes(p)
             => /\ currentStatus' = "error"
                /\ runState'[p] = "resolved"
                /\ reloaded' = reloaded
                /\ UNCHANGED indexVars]_vars

C11_Witness ==
    \E p \in Pids :
        /\ procState[p] = "errored"
        /\ runState[p] = "resolved"
        /\ currentStatus = "error"
        /\ currentProcess = NoProcess
        /\ p \notin reloaded
        /\ cachedIndex # NoIndex

\* C12: every run that spawned a process eventually has its promise resolved,
\* and never rejected, whatever the outcome (exit 0, nonzero exit, spawn
\* failure, cancellation, a failed reload after success), given that the
\* process eventually delivers its events.
C12_RunResolves ==
    \A p \in Pids :
        /\ [](runState[p] # "rejected")
        /\ (runState[p] = "pending") ~> (runState[p] = "resolved")

\* a run that exited with code 0, whose reload failed, and that is resolved
C12_Witness ==
    \E p \in Pids :
        /\ procState[p] = "exit0"
        /\ p \in reloaded
        /\ cachedIndex = NoIndex
        /\ runState[p] = "resolved"

\* C13: the cache only ever holds no index or a complete index together with
\* the path it was read from; whenever a new index is published (by a watched
\* change, a forced reload or the reload after a successful run) it is the
\* index built from the whole content of the dataset file, and a reload that
\* fails publishes nothing of the new content. The reload is one step, so a
\* query sees the cache before it or after it.
C13_ReloadAtomicity ==
    /\ [](cachedIndex = NoIndex <=> cachedPath = NoPath)
    /\ [][cachedIndex' # cachedIndex \/ cachedPath' # cachedPath
          => \/ cachedIndex' = NoIndex /\ cachedPath' = NoPath
             \/ /\ file.kind = "graph"
                /\ cachedIndex' = builtFrom(file)
                /\ cachedPath' = getIndexPath]_vars

\* the reload after a successful run published the index of the file's content
C13_Witness ==
    /\ cachedIndex = builtFrom(Graph(MaxVersion))
    /\ file = Graph(MaxVersion)
    /\ indexWatcher
    /\ \E p \in Pids : p \in reloaded /\ runState[p] = "resolved"

AfterWatchedDelete == indexWatcher /\ cachedIndex = NoIndex

\* C16 as stated: after a watched delete every loadIndex fails with the
\* not-found error while the file is absent, and succeeds and repopulates the
\* cache as soon as the file is there again.
C16_AsStated ==
    AfterWatchedDelete
    => \A forceReload \in BOOLEAN :
          IF file.kind = "absent"
          THEN loadIndex(IndexState, forceReload).err = "notFound"
          ELSE /\ loadIndex(IndexState, forceReload).ok
               /\ loadIndex(IndexState, forceReload).st.cache # NoIndex

\* C16: a watched delete sets the cache to null; from then on every loadIndex
\* fails with the not-found error and leaves the cache null while the file is
\* absent, and a loadIndex made once the file is there again with a well-formed
\* dataset succeeds and repopulates the cache from it.
C16_WatchedDelete ==
    /\ [][OnIndexDeleted => cachedIndex' = NoIndex /\ indexWatcher']_vars
    /\ [](AfterWatchedDelete
          => \A forceReload \in BOOLEAN :
                /\ file.kind = "absent"
                   => /\ ~loadIndex(IndexState, forceReload).ok
                      /\ loadIndex(IndexState, forceReload).err = "notFound"
                      /\ loadIndex(IndexState, forceReload).st.cache = NoIndex
                /\ file.kind = "graph"
                   => /\ loadIndex(IndexState, forceReload).ok
                      /\ loadIndex(IndexState, forceReload).ret = builtFrom(file)
                      /\ loadIndex(IndexState, forceReload).st.cache = builtFrom(file))

\* the delete was handled and the file is there again
C16_Witness ==
    /\ AfterWatchedDelete
    /\ "delete" \notin watchEvents
    /\ file.kind = "graph"

\* C17 as stated: whenever the dataset file does not exist, loadIndex fails
\* with the not-found error and leaves the cache and the watcher unchanged.
C17_AsStated ==
    file.kind = "absent"
    => \A forceReload \in BOOLEAN :
          /\ ~loadIndex(IndexState, forceReload).ok
          /\ loadIndex(IndexState, forceReload).err = "notFound"
          /\ loadIndex(IndexState, forceReload).st = IndexState

\* C17: a loadIndex that gets to the file (forceReload, or no cached index for
\* the resolved path) while the file does not exist throws the not-found
\* error to its caller and leaves the cache and the watcher unchanged; an
\* unforced call with an index cached for that path returns the cached index.
C17_MissingFile ==
    file.kind = "absent"
    => \A forceReload \in BOOLEAN :
          /\ loadIndex(IndexState, forceReload).st = IndexState
          /\ IF cachedIndex # NoIndex /\ ~forceReload /\ cachedPath = getIndexPath
             THEN /\ loadIndex(IndexState, forceReload).ok
                  /\ loadIndex(IndexState, forceReload).ret = cachedIndex
             ELSE /\ ~loadIndex(IndexState, forceReload).ok
                  /\ loadIndex(IndexState, forceReload).err = "notFound"

\* the file was removed under an armed watcher and a cached index
C17_Witness ==
    /\ file.kind = "absent"
    /\ cachedIndex # NoIndex
    /\ indexWatcher
    /\ "delete" \in watchEvents

\* C19: clearCache() leaves no cached index and no armed watcher (seen when
\* the reload that follows it fails); while no watcher is armed no
\* notification is queued and writes to the file change nothing of the cache;
\* and the next loadIndex, finding no cache, reads the file.
C19_ClearCache ==
    /\ [][\A p \in Pids :
             Closes(p) /\ procState'[p] = "exit0" /\ file.kind # "graph"
             => cachedIndex' = NoIndex /\ ~indexWatcher' /\ watchEvents' = {}]_vars
    /\ [](~indexWatcher => watchEvents = {})
    /\ [][~indexWatcher /\ files' # files => UNCHANGED indexVars]_vars
    /\ [](cachedIndex = NoIndex
          => /\ loadIndex(IndexState, FALSE).ok = (file.kind = "graph")
             /\ file.kind = "graph" => loadIndex(IndexState, FALSE).ret = builtFrom(file))

\* the reload after a successful run failed, and the file was written afterwards
C19_Witness ==
    \E p \in Pids :
        /\ p \in reloaded
        /\ cachedIndex = NoIndex
        /\ ~indexWatcher
        /\ file.kind = "graph"

\* C14: an unforced loadIndex, when an index is cached whose path is the
\* currently resolved one, returns that index and changes neither cache nor
\* watcher; a forced call, or a call with no cache or with a cache read from
\* another path, goes to the file: it fails and changes nothing when the file
\* is absent or malformed, it succeeds when the file holds a dataset, and
\* whenever it succeeds the index it returns is the one built from the file
\* and is the new cache, recorded under the resolved path.
C14_CacheHitOrRead ==
    \A forceReload \in BOOLEAN :
        IF ~forceReload /\ cachedIndex # NoIndex /\ cachedPath = getIndexPath
        THEN /\ loadIndex(IndexState, forceReload).ok
             /\ loadIndex(IndexState, forceReload).ret = cachedIndex
             /\ loadIndex(IndexState, forceReload).st = IndexState
        ELSE /\ file.kind \in {"absent", "malformed"}
                => /\ ~loadIndex(IndexState, forceReload).ok
                   /\ loadIndex(IndexState, forceReload).st = IndexState
             /\ file.kind = "graph" => loadIndex(IndexState, forceReload).ok
             /\ loadIndex(IndexState, forceReload).ok
                => /\ loadIndex(IndexState, forceReload).ret = builtFrom(file)
                   /\ loadIndex(IndexState, forceReload).st.cache = builtFrom(file)
                   /\ loadIndex(IndexState, forceReload).st.path = getIndexPath

\* an index is cached that was read from a path other than the resolved one,
\* whose file holds another dataset
C14_Witness ==
    /\ cachedIndex # NoIndex
    /\ cachedPath # getIndexPath
    /\ file.kind \notin {"absent", "malformed"}
    /\ builtFrom(file) # cachedIndex

\* C18: a file that is malformed JSON, or JSON without a nodes array or a
\* links array, is never loaded: a step that publishes a new index has read a
\* file holding a dataset with both arrays, and a forced loadIndex of any other
\* file fails and leaves the cache and the watcher as they were.
C18_RejectsInvalidDataset ==
    /\ [][cachedIndex' # cachedIndex /\ cachedIndex' # NoIndex => file.kind = "graph"]_vars
    /\ [](file.kind \in {"malformed", "badLinks"}
          => /\ ~loadIndex(IndexState, TRUE).ok
             /\ loadIndex(IndexState, TRUE).st = IndexState)

\* C20: when a run's process exits with code 0 and the file at the path the
\* pipeline was given as -o holds a dataset, the cache after the reload is the
\* index built from that file.
C20_SuccessLoadsProducedDataset ==
    [][\A p \in Pids :
          Closes(p) /\ procState'[p] = "exit0" /\ files[outPath[p]].kind = "graph"
          => cachedIndex' = builtFrom(files[outPath[p]])]_vars

\* C28: in every reachable state the status is Running exactly when the
\* supervisor tracks a process handle.
C28_RunningIffTracked == (currentStatus = "running") <=> (currentProcess # NoProcess)

\* the second process is tracked and running after the first has ended
C28_Witness ==
    /\ currentStatus = "running"
    /\ currentProcess = 2
    /\ procState[1] \in {"exit0", "exitN"}

\* C29: every process that is alive and was not sent a terminate request is
\* the one the supervisor's handle refers to (so cancelPipeline reaches it).
C29_LiveProcessIsTracked ==
    \A p \in Pids : procState[p] = "alive" => currentProcess = p

\* C26: file events on Rust files arm the debounce timer only when
\* callGraph.autoRegenerateOnSave was true when the pipeline runner was
\* initialized; when it was false no timer is ever armed, and every spawn of a
\* pipeline process is made by a Regenerate Index command resuming after its
\* prerequisite check.
C26_AutoRegenerateOnlyWhenEnabled ==
    /\ [](~autoRegenerateOnSave => debounceTimer = NoTimer /\ Armed = {})
    /\ [][debounceTimer' # NoTimer /\ debounceTimer' # debounceTimer
          => autoRegenerateOnSave]_vars
    /\ [][~autoRegenerateOnSave /\ Spawned' # Spawned
          => regenPrereq' = regenPrereq - 1]_vars

\* with the setting off, a run was started by the command
C26_Witness ==
    /\ ~autoRegenerateOnSave
    /\ \E p \in Pids : procState[p] = "alive" /\ currentProcess = p

IndexBuilt == index.metadata.indexPath = getIndexPath
UniqueIds(nodes) == \A i, j \in 1..Len(nodes) : nodes[i].id = nodes[j].id => i = j
\* the file a node is declared in: its relative_path, or its file_name when
\* relative_path is empty
FileKey(n) == IF n.relative_path # EmptyString THEN n.relative_path ELSE n.file_name
FileKeys == {EmptyString, <<"p.rs">>, <<"src", "/", "p.rs">>}
\* the last line of a node's range: end_line, or start_line when end_line is
\* absent or 0
LastLine(n) == IF n.end_line \in {Undefined, 0} THEN n.start_line ELSE n.end_line
\* positions of the nodes of file f whose range covers line l
Covering(nodes, f, l) ==
    {i \in 1..Len(nodes) :
        /\ FileKey(nodes[i]) = f
        /\ nodes[i].start_line # Undefined
        /\ nodes[i].start_line <= l /\ l <= LastLine(nodes[i])}
MaxOf(S) == CHOOSE x \in S : \A y \in S : y <= x

\* C21: for a graph whose node ids are unique, nodesById has as many entries
\* as the graph has nodes and maps every node's id to that node.
C21_NodesById ==
    IndexBuilt /\ UniqueIds(graph.nodes)
    => /\ MapSize(index.nodesById) = Len(graph.nodes)
       /\ \A i \in 1..Len(graph.nodes) :
             /\ MapHas(index.nodesById, graph.nodes[i].id)
             /\ index.nodesById.at[graph.nodes[i].id] = graph.nodes[i]

\* two nodes with different ids that share a display name
C21_Witness ==
    /\ IndexBuilt
    /\ Len(graph.nodes) = 2
    /\ graph.nodes[1].id # graph.nodes[2].id
    /\ graph.nodes[1].display_name = graph.nodes[2].display_name
    /\ MapSize(index.nodesById) = 2

\* C22: for every file f and line l, nodesByLine[f][l] is the last node, in
\* input order, of file f whose range covers l (so a node with start_line <=
\* end_line is found at each of its lines unless a later node of the same file
\* covers that line), and there is no entry when no node covers l.
C22_NodesByLine ==
    IndexBuilt
    => \A f \in FileKeys \ {EmptyString}, l \in 0..(MaxLine + 1) :
          IF Covering(graph.nodes, f, l) = {}
          THEN ~(MapHas(index.nodesByLine, f) /\ MapHas(index.nodesByLine.at[f], l))
          ELSE /\ MapHas(index.nodesByLine, f)
               /\ MapHas(index.nodesByLine.at[f], l)
               /\ index.nodesByLine.at[f].at[l] = graph.nodes[MaxOf(Covering(graph.nodes, f, l))]

\* two nodes of one file: the first covers lines 1 and 2, the second, with
\* another id, covers line 2 only
C22_Witness ==
    /\ IndexBuilt
    /\ Len(graph.nodes) = 2
    /\ FileKey(graph.nodes[1]) = FileKey(graph.nodes[2])
    /\ graph.nodes[1].id # graph.nodes[2].id
    /\ graph.nodes[1].start_line = 1 /\ graph.nodes[1].end_line = 2
    /\ graph.nodes[2].start_line = 2 /\ graph.nodes[2].end_line = 2
    /\ index.nodesByLine.at[FileKey(graph.nodes[1])].at[1] = graph.nodes[1]
    /\ index.nodesByLine.at[FileKey(graph.nodes[1])].at[2] = graph.nodes[2]

\* C23: for every file key f, nodesByFile[f] is the subsequence, in input
\* order, of the nodes whose file key is f (and f is a key of the map exactly
\* when there is such a node), so a node with a non-empty file key is in
\* exactly one list, once; nodes with an empty file key are in none.
C23_NodesByFile ==
    IndexBuilt
    => /\ \A f \in FileKeys \ {EmptyString} :
             LET declared == SelectSeq(graph.nodes, LAMBDA n : FileKey(n) = f)
             IN IF declared = <<>>
                THEN ~MapHas(index.nodesByFile, f)
                ELSE MapHas(index.nodesByFile, f) /\ index.nodesByFile.at[f] = declared
       /\ ~MapHas(index.nodesByFile, EmptyString)
       /\ DOMAIN index.nodesByFile.at \subseteq FileKeys

\* nodes of two files, one named by relative_path and one by file_name alone
C23_Witness ==
    /\ IndexBuilt
    /\ Len(graph.nodes) = 2
    /\ graph.nodes[1].relative_path # EmptyString
    /\ graph.nodes[2].relative_path = EmptyString
    /\ graph.nodes[2].file_name # EmptyString
    /\ MapSize(index.nodesByFile) = 2

\* C24: for every display name d, nodesByDisplayName[d] is the subsequence, in
\* input order, of the nodes named d (nodes sharing a name are all kept), and
\* the lengths of the lists add up to the number of nodes.
C24_NodesByDisplayName ==
    IndexBuilt
    => /\ \A d \in DisplayNames :
             LET named == SelectSeq(graph.nodes, LAMBDA n : n.display_name = d)
             IN IF named = <<>>
                THEN ~MapHas(index.nodesByDisplayName, d)
                ELSE MapHas(index.nodesByDisplayName, d) /\ index.nodesByDisplayName.at[d] = named
       /\ DOMAIN index.nodesByDisplayName.at \subseteq DisplayNames
       /\ LET len(d) == IF MapHas(index.nodesByDisplayName, d)
                        THEN Len(index.nodesByDisplayName.at[d]) ELSE 0
          IN len("f") + len("g") = Len(graph.nodes)

\* two nodes that share a display name are both in its list
C24_Witness ==
    /\ IndexBuilt
    /\ Len(graph.nodes) = 2
    /\ graph.nodes[1] # graph.nodes[2]
    /\ graph.nodes[1].display_name = "g" /\ graph.nodes[2].display_name = "g"
    /\ Len(index.nodesByDisplayName.at["g"]) = 2

\* ---- properties of the command construction (specification SpecCommand)
\* the arguments the pipeline executable receives: all of them, or those after
\* "--" when it is run through cargo
pipelineArgs(a) ==
    IF \E i \in 1..Len(a) : a[i] = "--"
    THEN SubSeq(a, (CHOOSE i \in 1..Len(a) : a[i] = "--") + 1, Len(a))
    ELSE a
Occurrences(a, flag) == Cardinality({i \in 1..Len(a) : a[i] = flag})
\* the flag value in effect: the option when it is supplied, else the setting
InEffect(opt, configured) == IF opt = Some(TRUE) THEN TRUE ELSE IF opt = Some(FALSE) THEN FALSE ELSE configured
\* flag occurs once, after the three positional arguments, followed by value
OnceWithValue(a, flag, value) ==
    /\ Occurrences(a, flag) = 1
    /\ \E i \in 4..(Len(a) - 1) : a[i] = flag /\ a[i + 1] = value

\* C27: the arguments the pipeline executable receives begin with
\* <project-root> -o <output-path>; after them --skip-verification occurs once
\* when skip-verification is in effect and not at all otherwise, likewise
\* --skip-similar-lemmas, --use-cached-scip (options.useCachedScip true),
\* -p <package> (a non-empty package) and --github-url <url> (a non-empty
\* URL); an option that is supplied, false included, decides over the setting.
C27_PipelineArguments ==
    invocation # NoInvocation
    => LET a == pipelineArgs(invocation.args)
       IN /\ Len(a) >= 3
          /\ SubSeq(a, 1, 3) = <<WorkspaceRoot, "-o", getIndexPath>>
          /\ Occurrences(a, "-o") = 1
          /\ Occurrences(a, "--skip-verification") =
                IF InEffect(options.skipVerification, settings.skipVerification) THEN 1 ELSE 0
          /\ Occurrences(a, "--skip-similar-lemmas") =
                IF InEffect(options.skipSimilarLemmas, settings.skipSimilarLemmas) THEN 1 ELSE 0
          /\ Occurrences(a, "--use-cached-scip") =
                IF options.useCachedScip = Some(TRUE) THEN 1 ELSE 0
          /\ IF options.package = Some("pkg")
             THEN OnceWithValue(a, "-p", "pkg")
             ELSE Occurrences(a, "-p") = 0
          /\ IF options.githubUrl = Some("url")
             THEN OnceWithValue(a, "--github-url", "url")
             ELSE Occurrences(a, "--github-url") = 0
          /\ \A i \in 4..Len(a) :
                a[i] \in {"--skip-verification", "--skip-similar-lemmas", "--use-cached-scip",
                          "-p", "pkg", "--github-url", "url"}

\* run through cargo with a package, with skipSimilarLemmas: false supplied
\* against the setting true
C27_Witness ==
    /\ invocation.command = "cargo"
    /\ options.skipSimilarLemmas = Some(FALSE)
    /\ settings.skipSimilarLemmas
    /\ options.package = Some("pkg")
    /\ Len(pipelineArgs(invocation.args)) = 5

\* ---- properties of checkPrerequisites (specification SpecCheck)
\* probe i of call c failed
ProbeFailed(c, tool) == \E i \in 1..Len(probes[c]) : probes[c][i] = [tool |-> tool, failed |-> TRUE]
Occurs(seq, x) == Cardinality({i \in 1..Len(seq) : seq[i] = x})
\* a settled call: resolved, ok exactly when missing is empty, one entry for
\* each required tool whose probe failed and nothing else, all tools probed
ResolvedRight(c) ==
    /\ prereqs[c].state = "resolved"
    /\ prereqs[c].ok = (prereqs[c].missing = <<>>)
    /\ \A t \in RequiredTools :
          Occurs(prereqs[c].missing, missingEntry(t)) = IF ProbeFailed(c, t) THEN 1 ELSE 0
    /\ \A i \in 1..Len(prereqs[c].missing) :
          \E t \in RequiredTools : prereqs[c].missing[i] = missingEntry(t)
    /\ logged[c] = ProbeFailed(c, "cargo verus")
    /\ [i \in 1..Len(probes[c]) |-> probes[c][i].tool] = Tools

\* C25: a checkPrerequisites call never rejects and, its probes ending, always
\* resolves; the result has ok true exactly when missing is empty; missing
\* holds the entry of a required tool exactly when this call's probe of it
\* failed; a failed probe of cargo verus is logged and adds nothing; every
\* call probes all three tools itself.
C25_CheckPrerequisites ==
    /\ [](\A c \in CheckIds :
            /\ prereqs[c].state # "rejected"
            /\ (prereqs[c].state # "none" /\ checkPc[c] = 0) => ResolvedRight(c))
    /\ \A c \in CheckIds : (prereqs[c].state = "pending") ~> (prereqs[c].state = "resolved")

\* a call resolved with ok true although the optional probe failed, and
\* another with scip alone missing after an earlier probe found everything
C25_Witness ==
    /\ prereqs[1].state = "resolved"
    /\ prereqs[1].ok
    /\ ProbeFailed(1, "cargo verus")
    /\ prereqs[2].state = "resolved"
    /\ prereqs[2].missing = <<missingEntry("scip")>>
    /\ ~prereqs[2].ok

\* ---- properties of the lookups (specification SpecLookup)
\* buildIndex has returned
Built == index.metadata.indexPath # NoPath
\* the queried file, relative to the workspace root
QueriedFile == SubSeq(query.arg, Len(AbsolutePath(<<>>)) + 1, Len(query.arg))
IdsOf(nodes) == {nodes[i].id : i \in 1..Len(nodes)}
NamesOf(nodes) == {nodes[i].display_name : i \in 1..Len(nodes)}

\* C36: findNodeAtPosition(index, filePath, line) returns null or one node
\* that is declared in the queried file and whose line range contains line,
\* also when the index holds distinct files sharing a base name; it returns
\* null when no node of the queried file covers the line.
C36_FindNodeAtPosition ==
    query.kind = "position"
    => /\ found # None
          => /\ FileKey(found[1]) = QueriedFile
             /\ found[1].start_line <= query.line
             /\ query.line <= LastLine(found[1])
       /\ Covering(graph.nodes, QueriedFile, query.line) = {} => found = None

\* C37: a graph whose dependencies, dependents or links name ids that are not
\* nodes is indexed like any other (every node is kept as it is, with those
\* lists); findNodeById returns null exactly for the ids no node has and
\* otherwise a node of the graph with that id; findNodesByName returns the
\* empty list for a name no node has.
C37_DanglingReferences ==
    /\ Built
       => /\ index.metadata.totalNodes = Len(graph.nodes)
          /\ \A i \in IdsOf(graph.nodes) :
                /\ MapHas(index.nodesById, i)
                /\ \E k \in 1..Len(graph.nodes) : graph.nodes[k] = index.nodesById.at[i]
    /\ query.kind = "id"
       => IF query.arg \in IdsOf(graph.nodes)
          THEN /\ found # None
               /\ found[1].id = query.arg
               /\ \E k \in 1..Len(graph.nodes) : graph.nodes[k] = found[1]
          ELSE found = None
    /\ query.kind = "name" /\ query.arg \notin NamesOf(graph.nodes) => found = Some(<<>>)

\* a node that depends on an id no node has is found by its id, and that id
\* is looked up and missed
C37_Witness ==
    /\ Len(graph.nodes) = 1
    /\ graph.nodes[1].dependencies = <<UnknownId>>
    /\ graph.links # <<>>
    /\ Built
    /\ index.nodesById.at[graph.nodes[1].id].dependencies = <<UnknownId>>
    /\ query.kind = "id"
    /\ query.arg = UnknownId
    /\ found = None

\* C38: the index built from graph G read from path p has metadata.totalNodes
\* = |G.nodes| and metadata.totalEdges = |G.links|, whatever counts G's own
\* metadata states, metadata.indexPath = p, and links equal to G.links.
C38_MetadataAndLinks ==
    Built
    => /\ index.metadata.totalNodes = Len(graph.nodes)
       /\ index.metadata.totalEdges = Len(graph.links)
       /\ index.metadata.indexPath = getIndexPath
       /\ index.links = graph.links

\* a graph of one node and two different links whose metadata states other
\* counts, read from the configured location
C38_Witness ==
    /\ Built
    /\ cfgPath = "custom"
    /\ graph.metadata = WrongMetadata
    /\ Len(graph.nodes) = 1
    /\ Len(graph.links) = 2
    /\ graph.links[1] # graph.links[2]
    /\ index.links = graph.links
    /\ index.metadata.totalNodes = 1
    /\ index.metadata.totalEdges = 2

\* ---- line ranges at their edges (specification SpecBuild)
\* the file and line pairs at which nodesByLine holds node n
FoundAt(n) ==
    {fl \in (FileKeys \ {EmptyString}) \X (0..(MaxLine + 1)) :
        /\ MapHas(index.nodesByLine, fl[1])
        /\ MapHas(index.nodesByLine.at[fl[1]], fl[2])
        /\ index.nodesByLine.at[fl[1]].at[fl[2]] = n}
InList(m, k, n) == MapHas(m, k) /\ \E j \in 1..Len(m.at[k]) : m.at[k][j] = n
\* start_line defined, end_line absent or 0
OpenEnded(n) == n.start_line # Undefined /\ n.end_line \in {Undefined, 0}
\* no start_line, or an end_line before start_line
Unplaced(n) ==
    \/ n.start_line = Undefined
    \/ n.end_line \notin {Undefined, 0} /\ n.end_line < n.start_line
\* node i is found at its start line and nowhere else, unless a later node
\* of its file covers that line
AtStartLineOnly(i) ==
    LET n == graph.nodes[i]
    IN /\ FoundAt(n) \subseteq {<<FileKey(n), n.start_line>>}
       /\ FileKey(n) # EmptyString
          /\ MaxOf(Covering(graph.nodes, FileKey(n), n.start_line)) = i
          => FoundAt(n) = {<<FileKey(n), n.start_line>>}

\* C40 as stated: a node with no start_line, or with end_line < start_line,
\* is in nodesByFile whatever its paths are.
C40_AsStated ==
    IndexBuilt /\ UniqueIds(graph.nodes)
    => \A i \in 1..Len(graph.nodes) :
          LET n == graph.nodes[i]
          IN /\ OpenEnded(n) => AtStartLineOnly(i)
             /\ Unplaced(n)
                => /\ FoundAt(n) = {}
                   /\ index.nodesById.at[n.id] = n
                   /\ InList(index.nodesByDisplayName, n.display_name, n)
                   /\ \E f \in FileKeys : InList(index.nodesByFile, f, n)

\* C40: in the index of a graph with unique ids, a node with start_line
\* defined and end_line absent or 0 is found in nodesByLine at its start_line
\* and at no other line; a node with no start_line, or with end_line <
\* start_line, is found at no line (its file has a line map all the same when
\* it has a start_line), is in nodesById and in the list of its display name,
\* and is in the nodesByFile list of its file when it has a file path, in no
\* list when both relative_path and file_name are empty.
C40_LineRangeEdges ==
    IndexBuilt /\ UniqueIds(graph.nodes)
    => \A i \in 1..Len(graph.nodes) :
          LET n == graph.nodes[i]
          IN /\ OpenEnded(n) => AtStartLineOnly(i)
             /\ Unplaced(n)
                => /\ FoundAt(n) = {}
                   /\ index.nodesById.at[n.id] = n
                   /\ InList(index.nodesByDisplayName, n.display_name, n)
                   /\ IF FileKey(n) # EmptyString
                      THEN /\ InList(index.nodesByFile, FileKey(n), n)
                           /\ n.start_line # Undefined => MapHas(index.nodesByLine, FileKey(n))
                      ELSE \A f \in FileKeys : ~InList(index.nodesByFile, f, n)

\* a node with end_line 0 found at line 1 alone, before a node of another
\* file whose end_line 1 precedes its start_line 2 and which is found at no
\* line though its file has a line map
C40_Witness ==
    /\ IndexBuilt
    /\ Len(graph.nodes) = 2
    /\ graph.nodes[1].start_line = 1 /\ graph.nodes[1].end_line = 0
    /\ FoundAt(graph.nodes[1]) = {<<FileKey(graph.nodes[1]), 1>>}
    /\ graph.nodes[2].start_line = 2 /\ graph.nodes[2].end_line = 1
    /\ FoundAt(graph.nodes[2]) = {}
    /\ MapHas(index.nodesByLine, FileKey(graph.nodes[2]))
    /\ MapSize(index.nodesByLine.at[FileKey(graph.nodes[2])]) = 0
    /\ InList(index.nodesByFile, FileKey(graph.nodes[2]), graph.nodes[2])

\* C34: a cancelPipeline() call (the command, or the Cancel answer of the
\* "already running" dialog) leaves the debounce timer, the host's timers and
\* the cached index with its watcher as they are; with no process tracked it
\* leaves the status, Success and Error included, and every other variable of
\* the supervisor as it is.
C34_CancelFrame ==
    [][(CancelCommand \/ RegenDialogAnswered(TRUE))
       => /\ UNCHANGED <<timerVars, indexVars>>
          /\ currentProcess = NoProcess => UNCHANGED <<pipelineVars, histVars, envVars>>]_vars

\* one process was cancelled and has not exited yet, a later run has failed:
\* the status is Error with no process tracked while a debounce timer is armed
C34_Witness ==
    /\ currentStatus = "error"
    /\ currentProcess = NoProcess
    /\ debounceTimer # NoTimer
    /\ \E p, q \in Pids : procState[p] = "killed" /\ procState[q] = "exitN"

\* ---- the index watcher (specification SpecIndex)
\* steps in which loadIndex gets past the cache and the existence check and
\* parses the file
ReadsFile ==
    /\ file.kind \notin {"absent", "malformed"}
    /\ \/ UserLoadIndex /\ ~(cachedIndex # NoIndex /\ cachedPath = getIndexPath)
       \/ OnIndexChanged

\* C33: after every loadIndex call that reads the file, one index watcher is
\* live, it is the armed one and its path is the path just loaded, which is
\* also the cached index's path; at all times at most one index watcher is
\* live, and whenever an index is cached a watcher is armed on its indexPath.
C33_OneWatcherOnLoadedPath ==
    /\ [](/\ liveWatchers <= 1
          /\ liveWatchers = (IF indexWatcher THEN 1 ELSE 0)
          /\ cachedIndex # NoIndex => indexWatcher /\ watchedPath = cachedPath)
    /\ [][ReadsFile
          => /\ indexWatcher'
             /\ watchedPath' = getIndexPath
             /\ cachedPath' = getIndexPath
             /\ liveWatchers' = 1]_vars

\* the index was loaded from the custom location, where its watcher is armed,
\* and the setting names the default location again, where a dataset waits
C33_Witness ==
    /\ cachedIndex # NoIndex
    /\ cachedPath = "custom"
    /\ indexWatcher
    /\ watchedPath = "custom"
    /\ liveWatchers = 1
    /\ cfgPath = "default"
    /\ files["default"].kind = "graph"

\* C35: the path a run gave the pipeline as -o is the path its close handler
\* reloads the index from when the process exits with code 0, also when
\* callGraph.indexPath is changed during the run.
C35_OutputPathIsReloadPath ==
    [][\A p \in Pids : p \notin reloaded /\ p \in reloaded' => outPath[p] = getIndexPath]_vars

\* ---- no workspace folder (specification SpecWorkspace)
\* steps that call runPipeline: the Regenerate Index command resuming, or the
\* debounce callback finding no run in progress
CallsRunPipeline ==
    \/ RegenPrereqDone(TRUE)
    \/ currentStatus # "running" /\ \E t \in TimerIds : TimerFires(t)

\* C39: a runPipeline call made while no workspace folder is open spawns no
\* process and leaves the status, the tracked handle, every process and run,
\* and the cached index with its watcher as they are; it leaves the debounce
\* timer as it is too (a call from the timer's callback comes after the
\* callback itself has cleared the timer).
C39_NoWorkspaceNoRun ==
    [][CallsRunPipeline /\ ~workspaceFolder
       => /\ Spawned' = Spawned
          /\ UNCHANGED <<pipelineVars, indexVars>>
          /\ RegenPrereqDone(TRUE) => UNCHANGED timerVars
          /\ (\E t \in TimerIds : TimerFires(t)) => debounceTimer' = NoTimer]_vars

\* the folder was closed while a Regenerate Index command waits for its
\* prerequisite check, after a run that succeeded and left an index cached
C39_Witness ==
    /\ ~workspaceFolder
    /\ regenPrereq > 0
    /\ currentStatus = "success"
    /\ currentProcess = NoProcess
    /\ cachedIndex # NoIndex

\* ---- a process that never exits (specification SpecUnattended)
\* C31: status Running is always eventually left, even when the process never
\* exits on its own and the user never cancels (a process running past the
\* hard ceiling being killed, its run ending in status Error).
C31_RunningIsLeft == (currentStatus = "running") ~> (currentStatus # "running")

\* ---- runs started by the debounce timer (specification SpecBackground)
\* C32: a run started by the debounce timer that fails, by a nonzero exit or
\* by a spawn failure, produces no interactive error notification.
C32_BackgroundFailuresOnlyLogged == errorShown = {}

====
